---- MODULE Spec2Model ----
(***************************************************************************)
(* A model of libfacade: the PNG chunk framer, the image container          *)
(* (parse / decompress / reconstruct / filter / compress / to_file), the    *)
(* text carriers and the nibble stego carrier of PNGPayload.                *)
(*                                                                         *)
(* Bytes are the integers 0..255; byte vectors and std::string are          *)
(* sequences of bytes.  std::optional<T> is a sequence of length 0          *)
(* (nullopt) or 1.  An operation that can throw is an operator returning a  *)
(* record whose err field is "ok" or the name of the exception.             *)
(***************************************************************************)
EXTENDS Integers, Sequences, FiniteSets, TLC

\* The members of one Image / PNGPayload object:
\*   chunk_map      std::map from a tag to the chunks of that tag
\*   trailing_data  std::optional byte vector
\*   image_data     std::optional vector of scanlines
\* the fields of one ico::Icon object:
\*   entries        std::vector of (IconDirEntry, payload bytes) pairs
\* and what the caller observes of the last call on it:
\*   op, arg        the operation and its arguments
\*   err, out       "ok" or the exception thrown, and the value returned
\*   added          the text payloads added to the chunk table, in order
\*   calls          how many operations were applied
VARIABLES chunk_map, trailing_data, image_data, entries, op, arg, err, out, added, calls

vars == <<chunk_map, trailing_data, image_data, entries, op, arg, err, out, added, calls>>

(***************************************************************************)
(* Bounds of the model.                                                    *)
(***************************************************************************)
\* number of operations applied to one image object
MaxCalls == 3
\* length of the byte strings drawn as trailing data and payloads
MaxBytes == 2
\* number of spans of the scanlines drawn for the filter runs
MaxSpans == 2
\* number of turns of the loop of Image::compress that are followed: more
\* than the bytes of any stream the runs compress
MaxTurns == 32

(***************************************************************************)
(* Generic helpers on sequences and optionals.                             *)
(***************************************************************************)
None == <<>>
Some(v) == <<v>>
has_value(o) == Len(o) = 1
value(o) == o[1]

\* the elements from..to of a sequence (empty when to < from)
Slice(s, from, to) == SubSeq(s, from, to)

\* f applied to the value of x: a statement sequence, x being the local the
\* first statement assigns and f the statements after it.  A loop that
\* threads its state passes it through Then, so that each turn starts from
\* a value and not from a pending computation.
Then(x, f(_)) == CHOOSE r \in {f(v) : v \in {x}} : TRUE

\* the concatenation of a sequence of sequences, by halves
RECURSIVE ConcatRange(_, _, _)
ConcatRange(ss, lo, hi) ==
    IF lo > hi THEN <<>>
    ELSE IF lo = hi THEN ss[lo]
    ELSE ConcatRange(ss, lo, (lo + hi) \div 2) \o ConcatRange(ss, ((lo + hi) \div 2) + 1, hi)

Concat(ss) == ConcatRange(ss, 1, Len(ss))

Abs(a) == IF a < 0 THEN -a ELSE a

(***************************************************************************)
(* Bit operations on bytes.                                                *)
(***************************************************************************)
RECURSIVE BitXor(_, _, _)
BitXor(a, b, n) ==
    IF n = 0 THEN 0
    ELSE (((a % 2) + (b % 2)) % 2) + 2 * BitXor(a \div 2, b \div 2, n - 1)

RECURSIVE BitAnd(_, _, _)
BitAnd(a, b, n) ==
    IF n = 0 THEN 0
    ELSE ((a % 2) * (b % 2)) + 2 * BitAnd(a \div 2, b \div 2, n - 1)

RECURSIVE BitOr(_, _, _)
BitOr(a, b, n) ==
    IF n = 0 THEN 0
    ELSE (IF a % 2 = 1 \/ b % 2 = 1 THEN 1 ELSE 0) + 2 * BitOr(a \div 2, b \div 2, n - 1)

\* ^, & and | on the two halves of a byte
XorNibble == [a \in 0..15 |-> [b \in 0..15 |-> BitXor(a, b, 4)]]
AndNibble == [a \in 0..15 |-> [b \in 0..15 |-> BitAnd(a, b, 4)]]
OrNibble == [a \in 0..15 |-> [b \in 0..15 |-> BitOr(a, b, 4)]]

Xor8(a, b) == (XorNibble[a \div 16][b \div 16] * 16) + XorNibble[a % 16][b % 16]
And8(a, b) == (AndNibble[a \div 16][b \div 16] * 16) + AndNibble[a % 16][b % 16]
Or8(a, b) == (OrNibble[a \div 16][b \div 16] * 16) + OrNibble[a % 16][b % 16]

RECURSIVE Pow2(_)
Pow2(n) == IF n = 0 THEN 1 ELSE 2 * Pow2(n - 1)

(***************************************************************************)
(* utility.hpp / utility.cpp                                               *)
(***************************************************************************)
\* a std::uint32_t held in memory order of a big-endian read: <<b3,b2,b1,b0>>,
\* most significant byte first
CRC32_TABLE == <<
    <<0,0,0,0>>, <<119,7,48,150>>, <<238,14,97,44>>, <<153,9,81,186>>,
    <<7,109,196,25>>, <<112,106,244,143>>, <<233,99,165,53>>, <<158,100,149,163>>,
    <<14,219,136,50>>, <<121,220,184,164>>, <<224,213,233,30>>, <<151,210,217,136>>,
    <<9,182,76,43>>, <<126,177,124,189>>, <<231,184,45,7>>, <<144,191,29,145>>,
    <<29,183,16,100>>, <<106,176,32,242>>, <<243,185,113,72>>, <<132,190,65,222>>,
    <<26,218,212,125>>, <<109,221,228,235>>, <<244,212,181,81>>, <<131,211,133,199>>,
    <<19,108,152,86>>, <<100,107,168,192>>, <<253,98,249,122>>, <<138,101,201,236>>,
    <<20,1,92,79>>, <<99,6,108,217>>, <<250,15,61,99>>, <<141,8,13,245>>,
    <<59,110,32,200>>, <<76,105,16,94>>, <<213,96,65,228>>, <<162,103,113,114>>,
    <<60,3,228,209>>, <<75,4,212,71>>, <<210,13,133,253>>, <<165,10,181,107>>,
    <<53,181,168,250>>, <<66,178,152,108>>, <<219,187,201,214>>, <<172,188,249,64>>,
    <<50,216,108,227>>, <<69,223,92,117>>, <<220,214,13,207>>, <<171,209,61,89>>,
    <<38,217,48,172>>, <<81,222,0,58>>, <<200,215,81,128>>, <<191,208,97,22>>,
    <<33,180,244,181>>, <<86,179,196,35>>, <<207,186,149,153>>, <<184,189,165,15>>,
    <<40,2,184,158>>, <<95,5,136,8>>, <<198,12,217,178>>, <<177,11,233,36>>,
    <<47,111,124,135>>, <<88,104,76,17>>, <<193,97,29,171>>, <<182,102,45,61>>,
    <<118,220,65,144>>, <<1,219,113,6>>, <<152,210,32,188>>, <<239,213,16,42>>,
    <<113,177,133,137>>, <<6,182,181,31>>, <<159,191,228,165>>, <<232,184,212,51>>,
    <<120,7,201,162>>, <<15,0,249,52>>, <<150,9,168,142>>, <<225,14,152,24>>,
    <<127,106,13,187>>, <<8,109,61,45>>, <<145,100,108,151>>, <<230,99,92,1>>,
    <<107,107,81,244>>, <<28,108,97,98>>, <<133,101,48,216>>, <<242,98,0,78>>,
    <<108,6,149,237>>, <<27,1,165,123>>, <<130,8,244,193>>, <<245,15,196,87>>,
    <<101,176,217,198>>, <<18,183,233,80>>, <<139,190,184,234>>, <<252,185,136,124>>,
    <<98,221,29,223>>, <<21,218,45,73>>, <<140,211,124,243>>, <<251,212,76,101>>,
    <<77,178,97,88>>, <<58,181,81,206>>, <<163,188,0,116>>, <<212,187,48,226>>,
    <<74,223,165,65>>, <<61,216,149,215>>, <<164,209,196,109>>, <<211,214,244,251>>,
    <<67,105,233,106>>, <<52,110,217,252>>, <<173,103,136,70>>, <<218,96,184,208>>,
    <<68,4,45,115>>, <<51,3,29,229>>, <<170,10,76,95>>, <<221,13,124,201>>,
    <<80,5,113,60>>, <<39,2,65,170>>, <<190,11,16,16>>, <<201,12,32,134>>,
    <<87,104,181,37>>, <<32,111,133,179>>, <<185,102,212,9>>, <<206,97,228,159>>,
    <<94,222,249,14>>, <<41,217,201,152>>, <<176,208,152,34>>, <<199,215,168,180>>,
    <<89,179,61,23>>, <<46,180,13,129>>, <<183,189,92,59>>, <<192,186,108,173>>,
    <<237,184,131,32>>, <<154,191,179,182>>, <<3,182,226,12>>, <<116,177,210,154>>,
    <<234,213,71,57>>, <<157,210,119,175>>, <<4,219,38,21>>, <<115,220,22,131>>,
    <<227,99,11,18>>, <<148,100,59,132>>, <<13,109,106,62>>, <<122,106,90,168>>,
    <<228,14,207,11>>, <<147,9,255,157>>, <<10,0,174,39>>, <<125,7,158,177>>,
    <<240,15,147,68>>, <<135,8,163,210>>, <<30,1,242,104>>, <<105,6,194,254>>,
    <<247,98,87,93>>, <<128,101,103,203>>, <<25,108,54,113>>, <<110,107,6,231>>,
    <<254,212,27,118>>, <<137,211,43,224>>, <<16,218,122,90>>, <<103,221,74,204>>,
    <<249,185,223,111>>, <<142,190,239,249>>, <<23,183,190,67>>, <<96,176,142,213>>,
    <<214,214,163,232>>, <<161,209,147,126>>, <<56,216,194,196>>, <<79,223,242,82>>,
    <<209,187,103,241>>, <<166,188,87,103>>, <<63,181,6,221>>, <<72,178,54,75>>,
    <<216,13,43,218>>, <<175,10,27,76>>, <<54,3,74,246>>, <<65,4,122,96>>,
    <<223,96,239,195>>, <<168,103,223,85>>, <<49,110,142,239>>, <<70,105,190,121>>,
    <<203,97,179,140>>, <<188,102,131,26>>, <<37,111,210,160>>, <<82,104,226,54>>,
    <<204,12,119,149>>, <<187,11,71,3>>, <<34,2,22,185>>, <<85,5,38,47>>,
    <<197,186,59,190>>, <<178,189,11,40>>, <<43,180,90,146>>, <<92,179,106,4>>,
    <<194,215,255,167>>, <<181,208,207,49>>, <<44,217,158,139>>, <<91,222,174,29>>,
    <<155,100,194,176>>, <<236,99,242,38>>, <<117,106,163,156>>, <<2,109,147,10>>,
    <<156,9,6,169>>, <<235,14,54,63>>, <<114,7,103,133>>, <<5,0,87,19>>,
    <<149,191,74,130>>, <<226,184,122,20>>, <<123,177,43,174>>, <<12,182,27,56>>,
    <<146,210,142,155>>, <<229,213,190,13>>, <<124,220,239,183>>, <<11,219,223,33>>,
    <<134,211,210,212>>, <<241,212,226,66>>, <<104,221,179,248>>, <<31,218,131,110>>,
    <<129,190,22,205>>, <<246,185,38,91>>, <<111,176,119,225>>, <<24,183,71,119>>,
    <<136,8,90,230>>, <<255,15,106,112>>, <<102,6,59,202>>, <<17,1,11,92>>,
    <<143,101,158,255>>, <<248,98,174,105>>, <<97,107,255,211>>, <<22,108,207,69>>,
    <<160,10,226,120>>, <<215,13,210,238>>, <<78,4,131,84>>, <<57,3,179,194>>,
    <<167,103,38,97>>, <<208,96,22,247>>, <<73,105,71,77>>, <<62,110,119,219>>,
    <<174,209,106,74>>, <<217,214,90,220>>, <<64,223,11,102>>, <<55,216,59,240>>,
    <<169,188,174,83>>, <<222,187,158,197>>, <<71,178,207,127>>, <<48,181,255,233>>,
    <<189,189,242,28>>, <<202,186,194,138>>, <<83,179,147,48>>, <<36,180,163,166>>,
    <<186,208,54,5>>, <<205,215,6,147>>, <<84,222,87,41>>, <<35,217,103,191>>,
    <<179,102,122,46>>, <<196,97,74,184>>, <<93,104,27,2>>, <<42,111,43,148>>,
    <<180,11,190,55>>, <<195,12,142,161>>, <<90,5,223,27>>, <<45,2,239,141>>
>>

\* a small non-negative integer as a std::uint32_t, most significant byte first
u32(n) == <<(n \div 16777216) % 256, (n \div 65536) % 256, (n \div 256) % 256, n % 256>>

Xor32(a, b) == <<Xor8(a[1], b[1]), Xor8(a[2], b[2]), Xor8(a[3], b[3]), Xor8(a[4], b[4])>>

\* one turn of the loop: table[(crc ^ byte) & 0xFF] ^ (crc >> 8)
crc32_step(byte, crc) ==
    LET t == CRC32_TABLE[Xor8(crc[4], byte) + 1]
    IN  <<t[1], Xor8(t[2], crc[1]), Xor8(t[3], crc[2]), Xor8(t[4], crc[3])>>

\* the loop over data[lo..hi], evaluated by halves
RECURSIVE crc32_loop(_, _, _, _)
crc32_loop(data, lo, hi, crc) ==
    IF lo > hi THEN crc
    ELSE IF lo = hi THEN crc32_step(data[lo], crc)
    ELSE Then(crc32_loop(data, lo, (lo + hi) \div 2, crc),
              LAMBDA left : crc32_loop(data, ((lo + hi) \div 2) + 1, hi, left))

crc32(data, init_crc) ==
    Xor32(crc32_loop(data, 1, Len(data), Xor32(init_crc, <<255, 255, 255, 255>>)),
          <<255, 255, 255, 255>>)

(***************************************************************************)
(* facade::compress / facade::decompress wrap zlib's deflate and inflate.  *)
(* The codec is represented by the zlib stream that holds the input in one *)
(* stored block: CMF FLG | 01 LEN NLEN | bytes | Adler-32.  inflate reads   *)
(* one stream and ignores what follows it; anything else is a ZLibError.   *)
(***************************************************************************)
\* the two sums of Adler-32 over data[lo..hi], evaluated by halves
RECURSIVE adler_loop(_, _, _, _)
adler_loop(data, lo, hi, ab) ==
    IF lo > hi THEN ab
    ELSE IF lo = hi
    THEN <<(ab[1] + data[lo]) % 65521, (ab[2] + ((ab[1] + data[lo]) % 65521)) % 65521>>
    ELSE Then(adler_loop(data, lo, (lo + hi) \div 2, ab),
              LAMBDA left : adler_loop(data, ((lo + hi) \div 2) + 1, hi, left))

adler32(data) ==
    LET ab == adler_loop(data, 1, Len(data), <<1, 0>>)
    IN  <<ab[2] \div 256, ab[2] % 256, ab[1] \div 256, ab[1] % 256>>

compress(data) ==
    LET n == Len(data)
    IN  <<120, 1, 1, n % 256, n \div 256, 255 - (n % 256), 255 - (n \div 256)>>
        \o data \o adler32(data)

decompress(z) ==
    IF Len(z) < 11 \/ z[1] # 120 \/ z[2] # 1 \/ z[3] # 1
    THEN [err |-> "ZLibError", data |-> <<>>]
    ELSE LET n == z[4] + 256 * z[5]
         IN  IF z[6] # 255 - z[4] \/ z[7] # 255 - z[5] \/ Len(z) < 11 + n
             THEN [err |-> "ZLibError", data |-> <<>>]
             ELSE LET data == Slice(z, 8, 7 + n)
                  IN  IF Slice(z, 8 + n, 11 + n) # adler32(data)
                      THEN [err |-> "ZLibError", data |-> <<>>]
                      ELSE [err |-> "ok", data |-> data]

(***************************************************************************)
(* base64 (utility.cpp).  Characters are their ASCII codes.                *)
(***************************************************************************)
BASE64_ALPHA ==
    [i \in 1..64 |->
        IF i <= 26 THEN 64 + i
        ELSE IF i <= 52 THEN 96 + (i - 26)
        ELSE IF i <= 62 THEN 47 + (i - 52)
        ELSE IF i = 63 THEN 43 ELSE 47]

PadChar == 61

\* std::string::find of one character: its index from 0, or npos
alpha_find(c) ==
    IF \E i \in 1..64 : BASE64_ALPHA[i] = c
    THEN Some((CHOOSE i \in 1..64 : BASE64_ALPHA[i] = c) - 1)
    ELSE None

isalnum(c) == (c >= 48 /\ c <= 57) \/ (c >= 65 /\ c <= 90) \/ (c >= 97 /\ c <= 122)

RECURSIVE is_base64_tail(_, _)
is_base64_tail(s, i) ==
    IF i > Len(s) THEN TRUE
    ELSE IF s[i] # PadChar THEN FALSE
    ELSE is_base64_tail(s, i + 1)

RECURSIVE is_base64_head(_, _)
is_base64_head(s, i) ==
    IF i > Len(s) THEN TRUE
    ELSE IF s[i] = PadChar THEN is_base64_tail(s, i)
    ELSE IF ~has_value(alpha_find(s[i])) THEN FALSE
    ELSE is_base64_head(s, i + 1)

is_base64_string(s) == is_base64_head(s, 1)

\* the four 6-bit values without the carry of the first byte's low two bits
encode_quad_no_carry(c) ==
    << And8(c[1], 252) \div 4,
       And8(c[2], 240) \div 16,
       (And8(c[2], 15) * 4) + (And8(c[3], 192) \div 64),
       And8(c[3], 63) >>

\* the four 6-bit values of three input bytes
encode_quad(c) ==
    << And8(c[1], 252) \div 4,
       (And8(c[1], 3) * 16) + (And8(c[2], 240) \div 16),
       (And8(c[2], 15) * 4) + (And8(c[3], 192) \div 64),
       And8(c[3], 63) >>

RECURSIVE base64_encode_loop(_, _, _)
base64_encode_loop(data, pos, ret) ==
    LET left == Len(data) - pos + 1
    IN  IF left >= 3
        THEN LET q == encode_quad(Slice(data, pos, pos + 2))
             IN  base64_encode_loop(data, pos + 3,
                     ret \o [j \in 1..4 |-> BASE64_ALPHA[q[j] + 1]])
        ELSE IF left = 0 THEN ret
        ELSE LET c3 == [j \in 1..3 |-> IF j <= left THEN data[pos + j - 1] ELSE 0]
                 q == encode_quad(c3)
             IN  ret \o [j \in 1..(left + 1) |-> BASE64_ALPHA[q[j] + 1]]
                     \o [j \in 1..(3 - left) |-> PadChar]

base64_encode(data) == base64_encode_loop(data, 1, <<>>)

\* static_cast<std::uint8_t>(BASE64_ALPHA.find(c)): npos becomes 255
find_u8(c) == IF has_value(alpha_find(c)) THEN value(alpha_find(c)) ELSE 255

\* the three bytes of four 6-bit (or 255) values, each kept to 8 bits
decode_triple(q) ==
    << ((q[1] * 4) + (And8(q[2], 48) \div 16)) % 256,
       ((And8(q[2], 15) * 16) + (And8(q[3], 60) \div 4)) % 256,
       ((And8(q[3], 3) * 64) + q[4]) % 256 >>

RECURSIVE base64_decode_loop(_, _, _, _)
base64_decode_loop(data, pos, acc, ret) ==
    IF pos > Len(data) \/ data[pos] = PadChar
    THEN IF acc = <<>> THEN [err |-> "ok", data |-> ret]
         ELSE LET i == Len(acc)
                  q == [j \in 1..4 |-> find_u8(IF j <= i THEN acc[j] ELSE 0)]
                  t == decode_triple(q)
              IN  [err |-> "ok", data |-> ret \o [j \in 1..(i - 1) |-> t[j]]]
    ELSE IF ~isalnum(data[pos]) /\ data[pos] # 43 /\ data[pos] # 47
    THEN [err |-> "InvalidBase64Character", data |-> <<>>]
    ELSE LET acc2 == Append(acc, data[pos])
         IN  IF Len(acc2) = 4
             THEN base64_decode_loop(data, pos + 1, <<>>,
                      ret \o decode_triple([j \in 1..4 |-> find_u8(acc2[j])]))
             ELSE base64_decode_loop(data, pos + 1, acc2, ret)

base64_decode(data) == base64_decode_loop(data, 1, <<>>, <<>>)

(***************************************************************************)
(* Chunk tags (four bytes) and ChunkVec / ChunkPtr (png.cpp).              *)
(***************************************************************************)
Signature == <<137, 80, 78, 71, 13, 10, 26, 10>>

IHDR == <<73, 72, 68, 82>>
IDAT == <<73, 68, 65, 84>>
IEND == <<73, 69, 78, 68>>
PLTE == <<80, 76, 84, 69>>
tEXt == <<116, 69, 88, 116>>
zTXt == <<122, 84, 88, 116>>

ChunkVec(tag, data) == [tag |-> tag, data |-> data]

\* ChunkVec::crc without the tag: the checksum of the payload alone
ChunkVec_crc_of_data(c) ==
    IF Len(c.data) > 0 THEN crc32(c.data, <<0, 0, 0, 0>>) ELSE <<0, 0, 0, 0>>

\* ChunkVec::crc
ChunkVec_crc(c) ==
    LET crc == crc32(c.tag, <<0, 0, 0, 0>>)
    IN  IF Len(c.data) > 0 THEN crc32(c.data, crc) ELSE crc

\* ChunkPtr::parse: the frame at offset (counted from 0) of a buffer
ChunkPtr_parse(buf, offset) ==
    LET size == Len(buf)
        oob  == [err |-> "OutOfBounds", length |-> 0, tag |-> <<>>, data |-> <<>>,
                 crc |-> <<>>]
    IN  IF size = 0 THEN [oob EXCEPT !.err = "NoData"]
        ELSE IF offset + 4 >= size THEN oob
        ELSE IF offset + 8 >= size THEN oob
        \* a length of 2^30 or more lies beyond every buffer of the model
        ELSE IF buf[offset + 1] >= 64 THEN oob
        ELSE LET length == (buf[offset + 1] * 16777216) + (buf[offset + 2] * 65536)
                           + (buf[offset + 3] * 256) + buf[offset + 4]
                 crc_at == offset + 8 + length
             IN  IF crc_at >= size THEN oob
                 ELSE IF crc_at + 4 > size THEN oob
                 ELSE [err |-> "ok", length |-> length,
                       tag |-> Slice(buf, offset + 5, offset + 8),
                       data |-> Slice(buf, offset + 9, offset + 8 + length),
                       crc |-> Slice(buf, crc_at + 1, crc_at + 4)]

\* ChunkPtr::validate
ChunkPtr_validate(p) ==
    LET crc == crc32(p.tag, <<0, 0, 0, 0>>)
    IN  (IF p.length > 0 THEN crc32(p.data, crc) ELSE crc) = p.crc

\* ChunkPtr::chunk_size
ChunkPtr_chunk_size(p) == 4 + 4 + p.length + 4

\* ChunkPtr::to_chunk_vec
ChunkPtr_to_chunk_vec(p) == ChunkVec(p.tag, p.data)

\* ChunkVec::to_chunk_ptr: the emitted bytes (big-endian length, tag, data,
\* big-endian CRC); the ChunkPtr it also returns is a view of these bytes
ChunkVec_to_chunk_ptr(c) ==
    u32(Len(c.data)) \o c.tag \o c.data \o ChunkVec_crc(c)

(***************************************************************************)
(* std::map<std::string, std::vector<ChunkVec>>: a function from the set   *)
(* of keys present to the chunk lists; iteration is in key order.          *)
(***************************************************************************)
EmptyMap == [t \in {} |-> <<>>]

\* std::string comparison of two four-byte keys
RECURSIVE KeyLess(_, _, _)
KeyLess(a, b, i) ==
    IF i > 4 THEN FALSE
    ELSE IF a[i] < b[i] THEN TRUE
    ELSE IF a[i] > b[i] THEN FALSE
    ELSE KeyLess(a, b, i + 1)

\* the keys with the greatest first
RECURSIVE SortedKeys_descending(_)
SortedKeys_descending(keys) ==
    IF keys = {} THEN <<>>
    ELSE LET k == CHOOSE x \in keys : \A y \in keys \ {x} : KeyLess(y, x, 1)
         IN  <<k>> \o SortedKeys_descending(keys \ {k})

\* the keys in the order the map iterates them
RECURSIVE SortedKeys(_)
SortedKeys(keys) ==
    IF keys = {} THEN <<>>
    ELSE LET k == CHOOSE x \in keys : \A y \in keys \ {x} : KeyLess(x, y, 1)
         IN  <<k>> \o SortedKeys(keys \ {k})

map_find(m, k) == k \in DOMAIN m

\* chunk_map[key].push_back(chunk): operator[] creates the entry
map_push_back(m, k, c) ==
    [t \in (DOMAIN m) \cup {k} |->
        IF t = k THEN (IF k \in DOMAIN m THEN Append(m[k], c) ELSE <<c>>)
        ELSE m[t]]

\* chunk_map[key] = list
map_assign(m, k, list) ==
    [t \in (DOMAIN m) \cup {k} |-> IF t = k THEN list ELSE m[t]]

(***************************************************************************)
(* Image::parse.  The result is the state the call leaves: on an exception *)
(* thrown inside the loop, the table holds the chunks stored so far.       *)
(***************************************************************************)
RECURSIVE parse_loop(_, _, _, _)
parse_loop(buf, offset, validate, cm) ==
    Then(ChunkPtr_parse(buf, offset), LAMBDA current_chunk :
        IF current_chunk.err # "ok"
        THEN [err |-> current_chunk.err, chunk_map |-> cm, trailing_data |-> None]
        ELSE IF validate /\ ~ChunkPtr_validate(current_chunk)
        THEN [err |-> "BadCRC", chunk_map |-> cm, trailing_data |-> None]
        ELSE LET next == offset + ChunkPtr_chunk_size(current_chunk)
             IN  Then(map_push_back(cm, current_chunk.tag,
                                    ChunkPtr_to_chunk_vec(current_chunk)),
                      LAMBDA cm2 :
                          IF current_chunk.tag # IEND
                          THEN parse_loop(buf, next, validate, cm2)
                          ELSE [err |-> "ok", chunk_map |-> cm2,
                                trailing_data |->
                                    IF next < Len(buf)
                                    THEN Some(Slice(buf, next + 1, Len(buf)))
                                    ELSE None]))

Image_parse(cm, td, buf, validate) ==
    IF Len(buf) < 8
    THEN [err |-> "InsufficientSize", chunk_map |-> cm, trailing_data |-> td]
    ELSE IF Slice(buf, 1, 8) # Signature
    THEN [err |-> "BadPNGSignature", chunk_map |-> cm, trailing_data |-> td]
    ELSE parse_loop(buf, 8, validate, EmptyMap)

(***************************************************************************)
(* Image::to_file.                                                         *)
(***************************************************************************)
\* the fixed order: critical chunks, then the known ancillary chunks
KnownOrder ==
    << IHDR, <<103, 65, 77, 65>>, PLTE, IDAT,
       <<116, 82, 78, 83>>, <<99, 72, 82, 77>>, <<105, 67, 67, 80>>,
       <<115, 66, 73, 84>>, <<115, 82, 71, 66>>, <<99, 73, 67, 80>>,
       tEXt, zTXt, <<105, 84, 88, 116>>, <<98, 75, 71, 68>>,
       <<104, 73, 83, 84>>, <<112, 72, 89, 115>>, <<115, 80, 76, 84>>,
       <<101, 88, 73, 102>>, <<116, 73, 77, 69>>, <<97, 99, 84, 76>>,
       <<102, 99, 84, 76>>, <<102, 100, 65, 84>> >>

SeqRange(s) == {s[i] : i \in 1..Len(s)}

\* to_file without its pass over the tags outside the fixed order
to_file_labels_known(cm) == KnownOrder \o <<IEND>>

\* the labels to_file walks: the fixed order, the other keys of the map in
\* map order, then IEND
to_file_labels(cm) ==
    KnownOrder
    \o SortedKeys({k \in DOMAIN cm : k # IEND /\ k \notin SeqRange(KnownOrder)})
    \o <<IEND>>

emit_chunks(list) == Concat([i \in 1..Len(list) |-> ChunkVec_to_chunk_ptr(list[i])])

\* to_file stopping after the chunks
Image_to_file_chunks_only(cm, td) ==
    Then(to_file_labels(cm), LAMBDA labels :
        Signature
        \o Concat([i \in 1..Len(labels) |->
               IF map_find(cm, labels[i]) THEN emit_chunks(cm[labels[i]]) ELSE <<>>])
        \o (IF ~map_find(cm, IEND) THEN ChunkVec_to_chunk_ptr(ChunkVec(IEND, <<>>)) ELSE <<>>))

Image_to_file(cm, td) ==
    Then(to_file_labels(cm), LAMBDA labels :
        Signature
        \o Concat([i \in 1..Len(labels) |->
               IF map_find(cm, labels[i]) THEN emit_chunks(cm[labels[i]]) ELSE <<>>])
        \o (IF ~map_find(cm, IEND) THEN ChunkVec_to_chunk_ptr(ChunkVec(IEND, <<>>)) ELSE <<>>)
        \o (IF has_value(td) THEN value(td) ELSE <<>>))

(***************************************************************************)
(* Header (the IHDR chunk) and the fifteen pixel kinds.                    *)
(***************************************************************************)
PixelEnum ==
    << "GRAYSCALE_PIXEL_1BIT", "GRAYSCALE_PIXEL_2BIT", "GRAYSCALE_PIXEL_4BIT",
       "GRAYSCALE_PIXEL_8BIT", "GRAYSCALE_PIXEL_16BIT", "TRUE_COLOR_PIXEL_8BIT",
       "TRUE_COLOR_PIXEL_16BIT", "PALETTE_PIXEL_1BIT", "PALETTE_PIXEL_2BIT",
       "PALETTE_PIXEL_4BIT", "PALETTE_PIXEL_8BIT", "ALPHA_GRAYSCALE_PIXEL_8BIT",
       "ALPHA_GRAYSCALE_PIXEL_16BIT", "ALPHA_TRUE_COLOR_PIXEL_8BIT",
       "ALPHA_TRUE_COLOR_PIXEL_16BIT" >>

\* PixelType::Bits of each kind
PixelBits ==
    [k \in SeqRange(PixelEnum) |->
        CASE k \in {"GRAYSCALE_PIXEL_1BIT", "PALETTE_PIXEL_1BIT"} -> 1
          [] k \in {"GRAYSCALE_PIXEL_2BIT", "PALETTE_PIXEL_2BIT"} -> 2
          [] k \in {"GRAYSCALE_PIXEL_4BIT", "PALETTE_PIXEL_4BIT"} -> 4
          [] k \in {"GRAYSCALE_PIXEL_8BIT", "PALETTE_PIXEL_8BIT"} -> 8
          [] k \in {"GRAYSCALE_PIXEL_16BIT", "ALPHA_GRAYSCALE_PIXEL_8BIT"} -> 16
          [] k = "TRUE_COLOR_PIXEL_8BIT" -> 24
          [] k \in {"ALPHA_GRAYSCALE_PIXEL_16BIT", "ALPHA_TRUE_COLOR_PIXEL_8BIT"} -> 32
          [] k = "TRUE_COLOR_PIXEL_16BIT" -> 48
          [] k = "ALPHA_TRUE_COLOR_PIXEL_16BIT" -> 64]

\* PixelSpan<P>::Samples
SpanSamples(k) == (8 \div PixelBits[k]) + (IF PixelBits[k] > 8 THEN 1 ELSE 0)

\* sizeof(PixelSpan<P>): a union of one byte and Bits/8 bytes
SpanSize(k) == IF PixelBits[k] < 8 THEN 1 ELSE PixelBits[k] \div 8

(***************************************************************************)
(* Unsigned machine integers wider than TLC's own: a number is the        *)
(* sequence of its bytes, least significant first (the layout the code     *)
(* reads with reinterpret_cast).  std::uint32_t keeps 4 bytes, std::size_t *)
(* keeps 8.                                                                *)
(***************************************************************************)
Pad(a, n) == [i \in 1..n |-> IF i <= Len(a) THEN a[i] ELSE 0]

\* conversion to the width of the destination type (drops the high bytes)
Trunc(a, n) == Pad(a, n)

RECURSIVE BigOfInt(_)
BigOfInt(n) == IF n = 0 THEN <<>> ELSE <<n % 256>> \o BigOfInt(n \div 256)

RECURSIVE BigToInt(_)
BigToInt(a) == IF Len(a) = 0 THEN 0 ELSE a[1] + (256 * BigToInt(Tail(a)))

RECURSIVE big_add_loop(_, _, _, _)
big_add_loop(a, b, i, carry) ==
    IF i > Len(a) THEN <<carry>>
    ELSE LET s == a[i] + b[i] + carry
         IN  <<s % 256>> \o big_add_loop(a, b, i + 1, s \div 256)

BigAdd(a, b) ==
    LET n == IF Len(a) > Len(b) THEN Len(a) ELSE Len(b)
    IN  big_add_loop(Pad(a, n), Pad(b, n), 1, 0)

RECURSIVE big_scale_loop(_, _, _, _)
big_scale_loop(a, d, i, carry) ==
    IF i > Len(a) THEN <<carry>>
    ELSE LET s == (a[i] * d) + carry
         IN  <<s % 256>> \o big_scale_loop(a, d, i + 1, s \div 256)

RECURSIVE BigMul(_, _)
BigMul(a, b) ==
    IF Len(b) = 0 THEN <<>>
    ELSE BigAdd(big_scale_loop(a, b[1], 1, 0), <<0>> \o BigMul(a, Tail(b)))

RECURSIVE big_less_loop(_, _, _)
big_less_loop(a, b, i) ==
    IF i = 0 THEN FALSE
    ELSE IF a[i] # b[i] THEN a[i] < b[i]
    ELSE big_less_loop(a, b, i - 1)

BigLess(a, b) ==
    LET n == IF Len(a) > Len(b) THEN Len(a) ELSE Len(b)
    IN  big_less_loop(Pad(a, n), Pad(b, n), n)

\* a / 8 on unsigned integers
BigDiv8(a) ==
    [i \in 1..Len(a) |->
        (a[i] \div 8) + ((IF i < Len(a) THEN a[i + 1] % 8 ELSE 0) * 32)]

\* the bytes of a std::uint32_t held most significant first, as memory order
le32(w) == <<w[4], w[3], w[2], w[1]>>

\* the std::size_t of value n
size_t(n) == Pad(BigOfInt(n), 8)

\* Header::width and Header::height as std::uint32_t, most significant byte first
Header_width(h) == Slice(h.data, 1, 4)
Header_height(h) == Slice(h.data, 5, 8)

\* the value of a std::uint32_t below 2^31
u32_int(w) == (w[1] * 16777216) + (w[2] * 65536) + (w[3] * 256) + w[4]

Header_bit_depth(h) == h.data[9]
Header_color_type(h) == h.data[10]

\* Header::pixel_type
Header_pixel_type(h) ==
    IF Len(h.data) # 13 THEN [err |-> "InsufficientSize", kind |-> ""]
    ELSE LET d == Header_bit_depth(h)
             ok(k) == [err |-> "ok", kind |-> k]
             bad == [err |-> "InvalidBitDepth", kind |-> ""]
         IN  CASE Header_color_type(h) = 0 ->
                    (CASE d = 1 -> ok("GRAYSCALE_PIXEL_1BIT")
                       [] d = 2 -> ok("GRAYSCALE_PIXEL_2BIT")
                       [] d = 4 -> ok("GRAYSCALE_PIXEL_4BIT")
                       [] d = 8 -> ok("GRAYSCALE_PIXEL_8BIT")
                       [] d = 16 -> ok("GRAYSCALE_PIXEL_16BIT")
                       [] OTHER -> bad)
               [] Header_color_type(h) = 2 ->
                    (CASE d = 8 -> ok("TRUE_COLOR_PIXEL_8BIT")
                       [] d = 16 -> ok("TRUE_COLOR_PIXEL_16BIT")
                       [] OTHER -> bad)
               [] Header_color_type(h) = 3 ->
                    (CASE d = 1 -> ok("PALETTE_PIXEL_1BIT")
                       [] d = 2 -> ok("PALETTE_PIXEL_2BIT")
                       [] d = 4 -> ok("PALETTE_PIXEL_4BIT")
                       [] d = 8 -> ok("PALETTE_PIXEL_8BIT")
                       [] OTHER -> bad)
               [] Header_color_type(h) = 4 ->
                    (CASE d = 8 -> ok("ALPHA_GRAYSCALE_PIXEL_8BIT")
                       [] d = 16 -> ok("ALPHA_GRAYSCALE_PIXEL_16BIT")
                       [] OTHER -> bad)
               [] Header_color_type(h) = 6 ->
                    (CASE d = 8 -> ok("ALPHA_TRUE_COLOR_PIXEL_8BIT")
                       [] d = 16 -> ok("ALPHA_TRUE_COLOR_PIXEL_16BIT")
                       [] OTHER -> bad)
               [] OTHER -> [err |-> "InvalidColorType", kind |-> ""]

\* Header::pixel_size, for a header whose pixel_type() succeeds
Header_pixel_size(h) == PixelBits[Header_pixel_type(h).kind]

\* Header::buffer_size, in std::size_t arithmetic
Header_buffer_size(h) ==
    LET scanline == Trunc(BigMul(le32(Header_width(h)), BigOfInt(Header_pixel_size(h))), 8)
        padded_scanline ==
            Trunc(BigAdd(scanline,
                         BigOfInt(IF (scanline[1] % 8) # 0 THEN 8 - (scanline[1] % 8) ELSE 0)), 8)
        height == le32(Header_height(h))
    IN  BigDiv8(Trunc(BigAdd(Trunc(BigMul(padded_scanline, height), 8),
                             Trunc(BigMul(height, <<8>>), 8)), 8))

\* Image::has_header, Image::header
Image_has_header(cm) == map_find(cm, IHDR)
Image_header(cm) == cm[IHDR][1]

(***************************************************************************)
(* ScanlineBase<P>: a filter type and a row of spans, each span the bytes  *)
(* of PixelSpan<P>.  kind records the alternative held by the variant.     *)
(***************************************************************************)
ScanlineOf(kind, filter_type, pixel_data) ==
    [kind |-> kind, filter_type |-> filter_type, pixel_data |-> pixel_data]

\* ScanlineBase::read_line (offset counted from 0)
read_line(kind, raw_data, offset, width) ==
    LET bit_width == PixelBits[kind] * width
        byte_width == (bit_width \div 8) + (IF (bit_width % 8) # 0 THEN 1 ELSE 0)
        sample_width == (width \div SpanSamples(kind))
                        + (IF (width % SpanSamples(kind)) # 0 THEN 1 ELSE 0)
        sz == SpanSize(kind)
    IN  IF offset >= Len(raw_data) THEN [err |-> "OutOfBounds", line |-> <<>>]
        ELSE IF offset + 1 + byte_width > Len(raw_data)
        THEN [err |-> "OutOfBounds", line |-> <<>>]
        ELSE [err |-> "ok",
              line |-> ScanlineOf(kind, raw_data[offset + 1],
                          [s \in 1..sample_width |->
                              [j \in 1..sz |-> raw_data[offset + 1 + ((s - 1) * sz) + j]]])]

RECURSIVE from_raw_loop(_, _, _, _, _, _)
from_raw_loop(kind, raw_data, i, buffer_size, width, result) ==
    IF i >= buffer_size THEN [err |-> "ok", lines |-> result]
    ELSE LET bit_width == PixelBits[kind] * width
             byte_width == (bit_width \div 8) + (IF (bit_width % 8) # 0 THEN 1 ELSE 0)
             l == read_line(kind, raw_data, i, width)
         IN  IF l.err # "ok" THEN [err |-> l.err, lines |-> <<>>]
             ELSE from_raw_loop(kind, raw_data, i + byte_width + 1, buffer_size, width,
                                Append(result, l.line))

\* ScanlineBase::from_raw
from_raw(kind, header, raw_data) ==
    LET width == u32_int(Header_width(header))
        buffer_size == Header_buffer_size(header)
    IN  IF size_t(Len(raw_data)) # buffer_size
        THEN [err |-> "PixelMismatch", lines |-> <<>>]
        ELSE from_raw_loop(kind, raw_data, 0, BigToInt(buffer_size), width, <<>>)

\* pixels_to_raw
pixels_to_raw(pixel_data) == Concat(pixel_data)

\* to_raw writing filter type 0 whatever the row was filtered with
to_raw_untagged(line) == <<0>> \o pixels_to_raw(line.pixel_data)

\* ScanlineBase::to_raw
to_raw(line) == <<line.filter_type>> \o pixels_to_raw(line.pixel_data)

(***************************************************************************)
(* The five filters (ScanlineBase::reconstruct and ScanlineBase::filter).  *)
(***************************************************************************)
\* the Paeth choice with strict comparisons: a candidate as near as a later
\* one loses to it
paeth_pick_strict(left, prev, prev_left) ==
    LET paeth == left + prev - prev_left
        paeth_left == Abs(paeth - left)
        paeth_prev == Abs(paeth - prev)
        paeth_prev_left == Abs(paeth - prev_left)
    IN  IF paeth_left < paeth_prev /\ paeth_left < paeth_prev_left THEN left
        ELSE IF paeth_prev < paeth_prev_left THEN prev
        ELSE prev_left

\* the predictor chosen by the Paeth branch
paeth_pick(left, prev, prev_left) ==
    LET paeth == left + prev - prev_left
        paeth_left == Abs(paeth - left)
        paeth_prev == Abs(paeth - prev)
        paeth_prev_left == Abs(paeth - prev_left)
    IN  IF paeth_left <= paeth_prev /\ paeth_left <= paeth_prev_left THEN left
        ELSE IF paeth_prev <= paeth_prev_left THEN prev
        ELSE prev_left

\* the value added (reconstruct) or subtracted (filter) for one byte
predictor(filter_type, left, prev, prev_left) ==
    CASE filter_type = 1 -> left
      [] filter_type = 2 -> prev
      [] filter_type = 3 -> (left + prev) \div 2
      [] filter_type = 4 -> paeth_pick(left, prev, prev_left)

\* reconstruction reading the left neighbour from the filtered row instead
\* of the row rebuilt so far
reconstruct_spans_stale_left(line, previous, i, result) ==
    [m \in 1..Len(line.pixel_data) |->
        [j \in 1..Len(line.pixel_data[m]) |->
            LET curr == line.pixel_data[m][j]
                left == IF m = 1 THEN 0 ELSE line.pixel_data[m - 1][j]
                prev == IF ~has_value(previous) THEN 0
                        ELSE value(previous).pixel_data[m][j]
                prev_left == IF m = 1 \/ ~has_value(previous) THEN 0
                             ELSE value(previous).pixel_data[m - 1][j]
            IN  (curr + predictor(line.filter_type, left, prev, prev_left)) % 256]]

RECURSIVE reconstruct_spans(_, _, _, _)
reconstruct_spans(line, previous, i, result) ==
    IF i > Len(line.pixel_data) THEN result
    ELSE LET span ==
                 [j \in 1..Len(line.pixel_data[i]) |->
                     LET curr == line.pixel_data[i][j]
                         left == IF i = 1 THEN 0 ELSE result[i - 1][j]
                         prev == IF ~has_value(previous) THEN 0
                                 ELSE value(previous).pixel_data[i][j]
                         prev_left == IF i = 1 \/ ~has_value(previous) THEN 0
                                      ELSE value(previous).pixel_data[i - 1][j]
                     IN  (curr + predictor(line.filter_type, left, prev, prev_left)) % 256]
         IN  Then(Append(result, span),
                  LAMBDA rebuilt : reconstruct_spans(line, previous, i + 1, rebuilt))

\* ScanlineBase::reconstruct
Scanline_reconstruct(line, previous) ==
    IF line.filter_type = 0 THEN [err |-> "ok", line |-> line]
    ELSE IF has_value(previous)
            /\ Len(value(previous).pixel_data) # Len(line.pixel_data)
    THEN [err |-> "ScanlineMismatch", line |-> line]
    ELSE IF Len(line.pixel_data) = 0 THEN [err |-> "NoPixels", line |-> line]
    ELSE IF line.filter_type \notin 1..4 THEN [err |-> "InvalidFilterType", line |-> line]
    ELSE [err |-> "ok",
          line |-> ScanlineOf(line.kind, 0, reconstruct_spans(line, previous, 1, <<>>))]

filter_spans(line, filter_type, previous) ==
    [i \in 1..Len(line.pixel_data) |->
        [j \in 1..Len(line.pixel_data[i]) |->
            LET curr == line.pixel_data[i][j]
                left == IF i = 1 THEN 0 ELSE line.pixel_data[i - 1][j]
                prev == IF ~has_value(previous) THEN 0
                        ELSE value(previous).pixel_data[i][j]
                prev_left == IF i = 1 \/ ~has_value(previous) THEN 0
                             ELSE value(previous).pixel_data[i - 1][j]
            IN  (curr - predictor(filter_type, left, prev, prev_left)) % 256]]

\* ScanlineBase::filter(filter_type, previous)
Scanline_filter_as(line, filter_type, previous) ==
    IF line.filter_type # 0 THEN [err |-> "AlreadyFiltered", line |-> line]
    ELSE IF has_value(previous)
            /\ Len(value(previous).pixel_data) # Len(line.pixel_data)
    THEN [err |-> "ScanlineMismatch", line |-> line]
    ELSE IF Len(line.pixel_data) = 0 THEN [err |-> "NoPixels", line |-> line]
    ELSE IF filter_type = 0 THEN [err |-> "ok", line |-> line]
    ELSE IF filter_type \notin 1..4 THEN [err |-> "InvalidFilterType", line |-> line]
    ELSE [err |-> "ok",
          line |-> ScanlineOf(line.kind, filter_type,
                              filter_spans(line, filter_type, previous))]

\* the sum of the bytes read as std::int8_t, in absolute value
RECURSIVE signed_sum(_, _, _)
signed_sum(raw, lo, hi) ==
    IF lo > hi THEN 0
    ELSE IF lo = hi THEN (IF raw[lo] >= 128 THEN raw[lo] - 256 ELSE raw[lo])
    ELSE signed_sum(raw, lo, (lo + hi) \div 2) + signed_sum(raw, ((lo + hi) \div 2) + 1, hi)

filter_score(line) ==
    LET raw == pixels_to_raw(line.pixel_data)
    IN  Abs(signed_sum(raw, 1, Len(raw)))

RECURSIVE best_filter(_, _, _, _)
best_filter(line, previous, i, best) ==
    IF i = 5 THEN [err |-> "ok", line |-> best]
    ELSE Then(Scanline_filter_as(line, i, previous), LAMBDA filtered :
             IF filtered.err # "ok" THEN filtered
             ELSE IF i = 0 \/ filter_score(filtered.line) < filter_score(best)
             THEN best_filter(line, previous, i + 1, filtered.line)
             ELSE best_filter(line, previous, i + 1, best))

\* ScanlineBase::filter(previous): the candidate with the least score
Scanline_filter(line, previous) == best_filter(line, previous, 0, line)

(***************************************************************************)
(* Image: decompress, reconstruct, load, filter, compress.  Each operator  *)
(* returns the outcome and the members the call leaves behind.             *)
(***************************************************************************)
Image_has_image_data(cm) == map_find(cm, IDAT)
Image_is_loaded(img) == has_value(img)

\* Image::decompress
Image_decompress(cm, img) ==
    IF ~Image_has_image_data(cm) THEN [err |-> "NoImageDataChunks", image_data |-> img]
    ELSE Then(Concat([i \in 1..Len(cm[IDAT]) |-> cm[IDAT][i].data]), LAMBDA combined :
         Then(decompress(combined), LAMBDA decompressed :
             IF decompressed.err # "ok" THEN [err |-> decompressed.err, image_data |-> img]
             ELSE IF ~Image_has_header(cm) THEN [err |-> "NoHeaderChunk", image_data |-> img]
             ELSE LET pt == Header_pixel_type(Image_header(cm))
                  IN  IF pt.err # "ok" THEN [err |-> pt.err, image_data |-> img]
                      ELSE Then(from_raw(pt.kind, Image_header(cm), decompressed.data),
                                LAMBDA scanlines :
                                    IF scanlines.err # "ok"
                                    THEN [err |-> scanlines.err, image_data |-> img]
                                    ELSE [err |-> "ok",
                                          image_data |-> Some(scanlines.lines)])))

RECURSIVE reconstruct_rows(_, _, _)
reconstruct_rows(cm, rows, i) ==
    IF i > Len(rows) THEN [err |-> "ok", image_data |-> Some(rows)]
    ELSE IF ~Image_has_header(cm) THEN [err |-> "NoHeaderChunk", image_data |-> Some(rows)]
    ELSE LET pt == Header_pixel_type(Image_header(cm))
         IN  IF pt.err # "ok" THEN [err |-> pt.err, image_data |-> Some(rows)]
             ELSE IF (i > 1 /\ rows[i - 1].kind # pt.kind) \/ rows[i].kind # pt.kind
             THEN [err |-> "bad_variant_access", image_data |-> Some(rows)]
             ELSE Then(Scanline_reconstruct(rows[i],
                                            IF i = 1 THEN None ELSE Some(rows[i - 1])),
                       LAMBDA r :
                           IF r.err # "ok" THEN [err |-> r.err, image_data |-> Some(rows)]
                           ELSE Then([rows EXCEPT ![i] = r.line],
                                     LAMBDA stored : reconstruct_rows(cm, stored, i + 1)))

\* Image::reconstruct without its test of image_data: an absent vector is
\* taken for one of no scanlines
Image_reconstruct_unguarded(cm, img) ==
    IF ~has_value(img) THEN [err |-> "ok", image_data |-> img]
    ELSE reconstruct_rows(cm, value(img), 1)

\* Image::reconstruct: rows are replaced in place, one at a time
Image_reconstruct(cm, img) ==
    IF ~has_value(img) THEN [err |-> "NoImageData", image_data |-> img]
    ELSE reconstruct_rows(cm, value(img), 1)

\* Image::load
Image_load(cm, img) ==
    Then(Image_decompress(cm, img),
         LAMBDA d : IF d.err # "ok" THEN d ELSE Image_reconstruct(cm, d.image_data))

RECURSIVE filter_rows(_, _, _, _)
filter_rows(cm, current_data, new_data, i) ==
    IF i > Len(current_data) THEN [err |-> "ok", image_data |-> Some(new_data)]
    ELSE IF ~Image_has_header(cm)
    THEN [err |-> "NoHeaderChunk", image_data |-> Some(current_data)]
    ELSE LET pt == Header_pixel_type(Image_header(cm))
         IN  IF pt.err # "ok" THEN [err |-> pt.err, image_data |-> Some(current_data)]
             ELSE IF (i > 1 /\ current_data[i - 1].kind # pt.kind)
                     \/ new_data[i].kind # pt.kind
             THEN [err |-> "bad_variant_access", image_data |-> Some(current_data)]
             ELSE Then(Scanline_filter(new_data[i],
                                       IF i = 1 THEN None ELSE Some(current_data[i - 1])),
                       LAMBDA r :
                           IF r.err # "ok"
                           THEN [err |-> r.err, image_data |-> Some(current_data)]
                           ELSE Then([new_data EXCEPT ![i] = r.line],
                                     LAMBDA stored :
                                         filter_rows(cm, current_data, stored, i + 1)))

\* Image::filter: works on a copy, stored only when every row succeeded
Image_filter(cm, img) ==
    IF ~has_value(img) THEN [err |-> "NoImageData", image_data |-> img]
    ELSE filter_rows(cm, value(img), value(img), 1)

\* the default of Image::compress's chunk_size
DefaultChunkSize == 8192

\* the split that ignores the budget: the rest of the stream in one chunk
idat_split_whole(compressed, i, chunk_size) ==
    IF i >= Len(compressed) THEN <<>>
    ELSE <<ChunkVec(IDAT, Slice(compressed, i + 1, Len(compressed)))>>

RECURSIVE idat_split(_, _, _)
idat_split(compressed, i, chunk_size) ==
    IF i >= Len(compressed) THEN <<>>
    ELSE LET left == Len(compressed) - i
             n == IF left > chunk_size THEN chunk_size ELSE left
         IN  <<ChunkVec(IDAT, Slice(compressed, i + 1, i + n))>>
             \o idat_split(compressed, i + chunk_size, chunk_size)

\* Image::compress, for an absent chunk_size or one of at least 1
Image_compress(cm, img, chunk_size) ==
    IF ~has_value(img) THEN [err |-> "NoImageData", chunk_map |-> cm]
    ELSE Then(Concat([i \in 1..Len(value(img)) |-> to_raw(value(img)[i])]),
              LAMBDA combined :
         Then(compress(combined), LAMBDA compressed :
             LET idat_chunks == IF ~has_value(chunk_size)
                                THEN <<ChunkVec(IDAT, compressed)>>
                                ELSE idat_split(compressed, 0, value(chunk_size))
             IN  [err |-> "ok", chunk_map |-> map_assign(cm, IDAT, idat_chunks)]))

(***************************************************************************)
(* Text (the tEXt chunk) and the text payloads.                            *)
(***************************************************************************)
RECURSIVE first_zero(_, _)
first_zero(data, zero) ==
    IF zero >= Len(data) THEN zero
    ELSE IF data[zero + 1] = 0 THEN zero
    ELSE first_zero(data, zero + 1)

\* Text::null_terminator: the offset (from 0) of the first NUL byte
Text_null_terminator(data) ==
    IF Len(data) = 0 THEN None
    ELSE IF first_zero(data, 0) >= Len(data) THEN None
    ELSE Some(first_zero(data, 0))

\* Text::text_offset
Text_text_offset(data) ==
    IF has_value(Text_null_terminator(data))
    THEN value(Text_null_terminator(data)) + 1
    ELSE 0

Text_has_keyword(data) == has_value(Text_null_terminator(data))

\* Text::keyword
Text_keyword(data) ==
    IF ~Text_has_keyword(data) THEN [err |-> "NoKeyword", str |-> <<>>]
    ELSE [err |-> "ok", str |-> Slice(data, 1, value(Text_null_terminator(data)))]

\* the longest keyword Text::set_keyword validates
MaxKeyword == 79

\* Text::set_keyword
Text_set_keyword(data, keyword, validate) ==
    IF validate /\ Len(keyword) > MaxKeyword THEN [err |-> "KeywordTooLong", data |-> data]
    ELSE LET erased == IF Text_has_keyword(data)
                       THEN Slice(data, value(Text_null_terminator(data)) + 2, Len(data))
                       ELSE data
         IN  [err |-> "ok", data |-> keyword \o <<0>> \o erased]

\* Text::has_text
Text_has_text(data) ==
    LET zero == Text_null_terminator(data)
    IN  (has_value(zero) /\ Len(data) > value(zero) + 1)
        \/ (~has_value(zero) /\ Len(data) > 0)

\* Text::text: both ends are taken with std::vector::at
Text_text(data) ==
    IF Text_text_offset(data) >= Len(data) \/ Len(data) = 0
    THEN [err |-> "out_of_range", str |-> <<>>]
    ELSE [err |-> "ok", str |-> Slice(data, Text_text_offset(data) + 1, Len(data))]

\* Text::set_text
Text_set_text(data, text) ==
    (IF Text_has_text(data) THEN Slice(data, 1, Text_text_offset(data)) ELSE data) \o text

\* Text::Text(keyword, text)
Text_new(keyword, text) ==
    LET k == Text_set_keyword(<<>>, keyword, TRUE)
    IN  IF k.err # "ok" THEN [err |-> k.err, chunk |-> ChunkVec(tEXt, <<>>)]
        ELSE [err |-> "ok", chunk |-> ChunkVec(tEXt, Text_set_text(k.data, text))]

\* Image::has_text
Image_has_text(cm) == map_find(cm, tEXt)

\* Image::add_text
Image_add_text(cm, keyword, text) ==
    LET t == Text_new(keyword, text)
    IN  IF t.err # "ok" THEN [err |-> t.err, chunk_map |-> cm]
        ELSE [err |-> "ok", chunk_map |-> map_push_back(cm, tEXt, t.chunk)]

RECURSIVE get_text_loop(_, _, _, _)
get_text_loop(list, keyword, i, result) ==
    IF i > Len(list) THEN [err |-> "ok", texts |-> result]
    ELSE LET k == Text_keyword(list[i].data)
         IN  IF k.err # "ok" THEN [err |-> k.err, texts |-> <<>>]
             ELSE get_text_loop(list, keyword, i + 1,
                                IF k.str = keyword THEN Append(result, list[i]) ELSE result)

\* Image::get_text
Image_get_text(cm, keyword) ==
    IF ~map_find(cm, tEXt) THEN [err |-> "out_of_range", texts |-> <<>>]
    ELSE get_text_loop(cm[tEXt], keyword, 1, <<>>)

\* PNGPayload::add_text_payload
add_text_payload(cm, keyword, data) == Image_add_text(cm, keyword, base64_encode(data))

RECURSIVE text_payloads_loop(_, _, _)
text_payloads_loop(texts, i, result) ==
    IF i > Len(texts) THEN [err |-> "ok", texts |-> result]
    ELSE LET t == Text_text(texts[i].data)
         IN  IF t.err # "ok" THEN [err |-> t.err, texts |-> <<>>]
             ELSE IF ~is_base64_string(t.str)
             THEN [err |-> "InvalidBase64String", texts |-> <<>>]
             ELSE text_payloads_loop(texts, i + 1, Append(result, texts[i]))

\* PNGPayload::get_text_payloads
get_text_payloads(cm, keyword) ==
    LET potential_payloads == Image_get_text(cm, keyword)
    IN  IF potential_payloads.err # "ok" THEN potential_payloads
        ELSE text_payloads_loop(potential_payloads.texts, 1, <<>>)

RECURSIVE extract_text_loop(_, _, _)
extract_text_loop(payloads, i, result) ==
    IF i > Len(payloads) THEN [err |-> "ok", data |-> result]
    ELSE LET t == Text_text(payloads[i].data)
             d == base64_decode(t.str)
         IN  IF t.err # "ok" THEN [err |-> t.err, data |-> <<>>]
             ELSE IF d.err # "ok" THEN [err |-> d.err, data |-> <<>>]
             ELSE extract_text_loop(payloads, i + 1, Append(result, d.data))

\* PNGPayload::extract_text_payloads
extract_text_payloads(cm, keyword) ==
    LET payloads == get_text_payloads(cm, keyword)
    IN  IF payloads.err # "ok" THEN [err |-> payloads.err, data |-> <<>>]
        ELSE extract_text_loop(payloads.texts, 1, <<>>)

(***************************************************************************)
(* The stego carrier (PNGPayload).  Bit offsets and sizes are std::size_t  *)
(* values, held as 8 bytes; the capacity is a std::uint32_t.               *)
(***************************************************************************)
\* header.width() * header.height() * 3 * 4, each product a std::uint32_t
stego_max_size(width, height) ==
    Trunc(BigMul(Trunc(BigMul(Trunc(BigMul(le32(width), le32(height)), 4), <<3>>), 4),
                 <<4>>), 4)

\* bit_offset + size * 8, a std::size_t
stego_checked_size(bit_offset, size) ==
    Trunc(BigAdd(bit_offset, Trunc(BigMul(size, <<8>>), 8)), 8)

\* the two argument checks shared by read_stego_data and write_stego_data
stego_bounds(width, height, bit_offset, size) ==
    IF (bit_offset[1] % 4) # 0 THEN "InvalidBitOffset"
    ELSE IF BigLess(stego_max_size(width, height), stego_checked_size(bit_offset, size))
    THEN "OutOfBounds"
    ELSE "ok"

\* the checks that precede the loop of read_stego_data and write_stego_data
stego_guard(cm, img, bit_offset, size) ==
    IF ~Image_is_loaded(img) THEN "NoImageData"
    ELSE IF (bit_offset[1] % 4) # 0 THEN "InvalidBitOffset"
    ELSE IF ~Image_has_header(cm) THEN "NoHeaderChunk"
    ELSE IF Len(Image_header(cm).data) # 13 THEN "InsufficientSize"
    ELSE stego_bounds(Header_width(Image_header(cm)), Header_height(Image_header(cm)),
                      bit_offset, size)

StegoKinds == {"TRUE_COLOR_PIXEL_8BIT", "ALPHA_TRUE_COLOR_PIXEL_8BIT"}

\* (*this)[pixel_y][pixel_x]: Image::scanline, Scanline::get_pixel, get_span.
\* The index checks use >, so an index equal to the size reads past the end.
pixel_at(rows, pixel_y, pixel_x) ==
    IF pixel_y > Len(rows) THEN [err |-> "OutOfBounds", span |-> 0]
    ELSE IF pixel_y = Len(rows) THEN [err |-> "undefined", span |-> 0]
    ELSE LET row == rows[pixel_y + 1]
             samples == SpanSamples(row.kind)
         IN  IF pixel_x > Len(row.pixel_data) * samples
             THEN [err |-> "OutOfBounds", span |-> 0]
             ELSE IF (pixel_x \div samples) >= Len(row.pixel_data)
             THEN [err |-> "undefined", span |-> 0]
             ELSE IF row.kind \notin StegoKinds THEN [err |-> "PixelMismatch", span |-> 0]
             ELSE [err |-> "ok", span |-> (pixel_x \div samples) + 1]

\* one turn of the loop of read_stego_data, at bit position bits
read_stego_step(rows, width, bit_offset, bits, st) ==
    IF st.err # "ok" THEN st
    ELSE IF width = 0 THEN [err |-> "undefined", data |-> st.data]
    ELSE LET pixel_index == bits \div 12
             color_index == (bits % 12) \div 4
             byte_index == (bits - bit_offset) \div 8
             bit_index == (bits - bit_offset) % 8
             pixel_y == pixel_index \div width
             pixel_x == pixel_index % width
             p == pixel_at(rows, pixel_y, pixel_x)
         IN  IF p.err # "ok" THEN [err |-> p.err, data |-> st.data]
             ELSE LET lsb == rows[pixel_y + 1].pixel_data[p.span][color_index + 1] % 16
                  IN  [err |-> "ok",
                       data |-> IF bit_index = 0 THEN Append(st.data, lsb)
                                ELSE [st.data EXCEPT ![byte_index + 1] =
                                         Or8(@, (lsb * Pow2(bit_index)) % 256)]]

\* the turns lo..hi of the loop (bits = bit_offset + 4 * turn), by halves
RECURSIVE read_stego_loop(_, _, _, _, _, _)
read_stego_loop(rows, width, bit_offset, lo, hi, st) ==
    IF lo > hi THEN st
    ELSE IF lo = hi THEN read_stego_step(rows, width, bit_offset, bit_offset + (4 * lo), st)
    ELSE Then(read_stego_loop(rows, width, bit_offset, lo, (lo + hi) \div 2, st),
              LAMBDA left : read_stego_loop(rows, width, bit_offset,
                                            ((lo + hi) \div 2) + 1, hi, left))

\* PNGPayload::read_stego_data
read_stego_data(cm, img, bit_offset, size) ==
    Then(stego_guard(cm, img, bit_offset, size), LAMBDA g :
    Then(stego_checked_size(bit_offset, size), LAMBDA checked_size :
        IF g # "ok" THEN [err |-> g, data |-> <<>>]
        ELSE IF ~BigLess(bit_offset, checked_size) THEN [err |-> "ok", data |-> <<>>]
        ELSE read_stego_loop(value(img), u32_int(Header_width(Image_header(cm))),
                 BigToInt(bit_offset), 0,
                 ((BigToInt(checked_size) - BigToInt(bit_offset)) \div 4) - 1,
                 [err |-> "ok", data |-> <<>>])))

\* one pass through the switch of write_stego_data: no case ends in a break,
\* so the case of color_index and every case below it store the nibble
write_channels(span, color_index, nibble) ==
    [c \in 1..Len(span) |->
        IF c >= color_index + 1 /\ c <= 3
        THEN ((span[c] \div 16) * 16) + nibble
        ELSE span[c]]

\* one turn of the loop of write_stego_data, at bit position bits
write_stego_step(width, data, bit_offset, bits, st) ==
    IF st.err # "ok" THEN st
    ELSE IF width = 0 THEN [err |-> "undefined", image_data |-> st.image_data]
    ELSE LET rows == value(st.image_data)
             pixel_index == bits \div 12
             color_index == (bits % 12) \div 4
             byte_index == (bits - bit_offset) \div 8
             bit_index == (bits - bit_offset) % 8
             pixel_y == pixel_index \div width
             pixel_x == pixel_index % width
             p == pixel_at(rows, pixel_y, pixel_x)
         IN  IF p.err # "ok" THEN [err |-> p.err, image_data |-> st.image_data]
             ELSE LET nibble == (data[byte_index + 1] \div Pow2(bit_index)) % 16
                      span == write_channels(rows[pixel_y + 1].pixel_data[p.span],
                                             color_index, nibble)
                  IN  [err |-> "ok",
                       image_data |->
                           Some([rows EXCEPT ![pixel_y + 1].pixel_data[p.span] = span])]

\* the turns lo..hi of the loop (bits = bit_offset + 4 * turn), by halves
RECURSIVE write_stego_loop(_, _, _, _, _, _)
write_stego_loop(width, data, bit_offset, lo, hi, st) ==
    IF lo > hi THEN st
    ELSE IF lo = hi THEN write_stego_step(width, data, bit_offset, bit_offset + (4 * lo), st)
    ELSE Then(write_stego_loop(width, data, bit_offset, lo, (lo + hi) \div 2, st),
              LAMBDA left : write_stego_loop(width, data, bit_offset,
                                             ((lo + hi) \div 2) + 1, hi, left))

\* PNGPayload::write_stego_data
write_stego_data(cm, img, data, bit_offset) ==
    Then(stego_guard(cm, img, bit_offset, size_t(Len(data))), LAMBDA g :
    Then(stego_checked_size(bit_offset, size_t(Len(data))), LAMBDA checked_size :
        IF g # "ok" THEN [err |-> g, image_data |-> img]
        ELSE IF ~BigLess(bit_offset, checked_size) THEN [err |-> "ok", image_data |-> img]
        ELSE write_stego_loop(u32_int(Header_width(Image_header(cm))), data,
                 BigToInt(bit_offset), 0,
                 ((BigToInt(checked_size) - BigToInt(bit_offset)) \div 4) - 1,
                 [err |-> "ok", image_data |-> img])))

StegoHeader == <<70, 67, 68>>
StegoFooter == <<68, 67, 70>>

\* PNGPayload::has_stego_payload
has_stego_payload(cm, img) ==
    IF ~Image_is_loaded(img) THEN [err |-> "NoImageData", value |-> FALSE]
    ELSE IF ~Image_has_header(cm) THEN [err |-> "NoHeaderChunk", value |-> FALSE]
    ELSE Then(read_stego_data(cm, img, size_t(0), size_t(3)), LAMBDA stego_header :
         IF stego_header.err # "ok" THEN [err |-> stego_header.err, value |-> FALSE]
         ELSE IF stego_header.data # StegoHeader THEN [err |-> "ok", value |-> FALSE]
         ELSE Then(read_stego_data(cm, img, size_t(3 * 8), size_t(4)), LAMBDA data_size :
              IF data_size.err # "ok" THEN [err |-> data_size.err, value |-> FALSE]
              ELSE LET size_val == data_size.data
                       h == Image_header(cm)
                       max_val == stego_max_size(Header_width(h), Header_height(h))
                       payload_end ==
                           Trunc(BigAdd(size_t(7 * 8), BigMul(size_val, <<8>>)), 4)
                       total == Trunc(BigAdd(payload_end, size_t(3 * 8)), 4)
                   IN  IF BigLess(max_val, total) THEN [err |-> "ok", value |-> FALSE]
                       ELSE Then(read_stego_data(cm, img, Pad(payload_end, 8), size_t(3)),
                                 LAMBDA stego_footer :
                                     IF stego_footer.err # "ok"
                                     THEN [err |-> stego_footer.err, value |-> FALSE]
                                     ELSE [err |-> "ok",
                                           value |-> stego_footer.data = StegoFooter])))

\* PNGPayload::extract_stego_payload
extract_stego_payload(cm, img) ==
    IF ~Image_is_loaded(img) THEN [err |-> "NoImageData", data |-> <<>>]
    ELSE Then(has_stego_payload(cm, img), LAMBDA h :
         IF h.err # "ok" THEN [err |-> h.err, data |-> <<>>]
         ELSE IF ~h.value THEN [err |-> "NoStegoData", data |-> <<>>]
         ELSE Then(read_stego_data(cm, img, size_t(3 * 8), size_t(4)), LAMBDA data_size :
              IF data_size.err # "ok" THEN [err |-> data_size.err, data |-> <<>>]
              ELSE Then(read_stego_data(cm, img, size_t(7 * 8), Pad(data_size.data, 8)),
                        LAMBDA body :
                            IF body.err # "ok" THEN [err |-> body.err, data |-> <<>>]
                            ELSE decompress(body.data))))

\* the object create_stego_payload returns
ImageOf(cm, td, img) == [chunk_map |-> cm, trailing_data |-> td, image_data |-> img]

\* PNGPayload::create_stego_payload: works on a copy of the image
create_stego_payload(cm, td, img, x) ==
    LET failed(e) == [err |-> e, result |-> ImageOf(cm, td, img)]
    IN  IF ~Image_has_header(cm) THEN failed("NoHeaderChunk")
        ELSE LET header == Image_header(cm)
                 pixel_type == Header_pixel_type(header)
                 max_storage ==
                     BigDiv8(stego_max_size(Header_width(header), Header_height(header)))
             IN  IF pixel_type.err # "ok" THEN failed(pixel_type.err)
                 ELSE IF pixel_type.kind \notin StegoKinds THEN failed("UnsupportedPixelType")
                 ELSE Then(compress(x), LAMBDA compressed :
                      Then(StegoHeader \o Pad(BigOfInt(Len(compressed)), 4)
                               \o compressed \o StegoFooter,
                           LAMBDA payload :
                      IF BigLess(max_storage, BigOfInt(Len(payload)))
                      THEN failed("ImageTooSmall")
                      ELSE Then(Image_load(cm, img), LAMBDA loaded :
                           IF loaded.err # "ok" THEN failed(loaded.err)
                           ELSE Then(write_stego_data(cm, loaded.image_data, payload,
                                                      size_t(0)),
                                     LAMBDA written :
                           IF written.err # "ok" THEN failed(written.err)
                           ELSE Then(Image_filter(cm, written.image_data), LAMBDA filtered :
                           IF filtered.err # "ok" THEN failed(filtered.err)
                           ELSE Then(Image_compress(cm, filtered.image_data,
                                                    Some(DefaultChunkSize)),
                                     LAMBDA compressed_image :
                           IF compressed_image.err # "ok" THEN failed(compressed_image.err)
                           ELSE [err |-> "ok",
                                 result |-> ImageOf(compressed_image.chunk_map, td,
                                                    filtered.image_data)]))))))

(***************************************************************************)
(* Input files.  Each is written out chunk by chunk, so that the parser    *)
(* and the decoder meet well-formed files, files the PNG standard forbids  *)
(* and damaged files.                                                      *)
(***************************************************************************)
\* an IHDR chunk: width, height, bit depth, colour type, and three zero bytes
MakeHeader(width, height, bit_depth, color_type) ==
    ChunkVec(IHDR, u32(width) \o u32(height) \o <<bit_depth, color_type, 0, 0, 0>>)

\* the file holding the given chunks, followed by the given bytes
file_of(chunks, trailing) == Signature \o emit_chunks(chunks) \o trailing

\* a file of one IHDR, one IDAT holding the deflated rows, and IEND
png_of(header, raw) ==
    file_of(<<header, ChunkVec(IDAT, compress(raw)), ChunkVec(IEND, <<>>)>>, <<>>)

\* 2x2 8-bit truecolour, rows filtered with Sub and Paeth
RGB_2x2 == png_of(MakeHeader(2, 2, 8, 2),
                  <<1, 10, 20, 30, 5, 6, 7, 4, 1, 2, 3, 250, 251, 252>>)

\* 3x2 1-bit grayscale, rows filtered with None and Up
GRAY1_3x2 == png_of(MakeHeader(3, 2, 1, 0), <<0, 160, 2, 64>>)

\* 1x2 16-bit grayscale with alpha, rows filtered with Average and Sub
GRAYA16_1x2 == png_of(MakeHeader(1, 2, 16, 4), <<3, 1, 2, 3, 4, 1, 255, 0, 7, 9>>)

\* a header of width 0 and height 1: one row without pixels
ZERO_WIDTH == png_of(MakeHeader(0, 1, 8, 0), <<0>>)

\* a header of height 0: no rows
ZERO_HEIGHT == png_of(MakeHeader(2, 0, 8, 2), <<>>)

\* the second row carries filter type 7
BAD_FILTER == png_of(MakeHeader(1, 2, 8, 0), <<1, 5, 7, 9>>)

\* the signature followed by IEND alone, and two bytes after it
NO_HEADER == file_of(<<ChunkVec(IEND, <<>>)>>, <<80, 75>>)

\* a PLTE chunk, a private chunk, a tEXt chunk, the image data split over
\* two IDAT chunks, and bytes after IEND
WITH_EXTRAS ==
    LET z == compress(<<2, 9, 8, 7>>)
    IN  file_of(<<MakeHeader(1, 1, 8, 2),
                  ChunkVec(<<118, 112, 65, 103>>, <<1>>),
                  ChunkVec(tEXt, <<65, 0, 104, 105>>),
                  ChunkVec(IDAT, Slice(z, 1, 6)),
                  ChunkVec(PLTE, <<1, 2, 3>>),
                  ChunkVec(IDAT, Slice(z, 7, Len(z))),
                  ChunkVec(IEND, <<>>)>>, <<9, 9, 9>>)

\* two private chunks, the one with the greater tag first in the file
TWO_PRIVATE ==
    file_of(<<MakeHeader(1, 1, 8, 0),
              ChunkVec(<<118, 112, 65, 103>>, <<1>>),
              ChunkVec(<<112, 114, 86, 116>>, <<2>>),
              ChunkVec(IDAT, compress(<<0, 5>>)),
              ChunkVec(IEND, <<>>)>>, <<>>)

\* RGB_2x2 with the last byte of the IEND checksum changed
BAD_CRC == [RGB_2x2 EXCEPT ![Len(RGB_2x2)] = (@ + 1) % 256]

\* GRAY1_3x2 cut inside its last chunk
TRUNCATED == Slice(GRAY1_3x2, 1, Len(GRAY1_3x2) - 5)

\* eight bytes that are not the signature, and a file shorter than it
BAD_SIGNATURE == <<137, 80, 78, 71, 13, 10, 26, 11, 0, 0>>
TOO_SHORT == <<137, 80, 78>>

\* the calls of Image::parse the lifecycle runs draw: the data and the
\* validate flag
ParseInputs ==
    {[data |-> d, validate |-> TRUE] :
        d \in {RGB_2x2, GRAY1_3x2, GRAYA16_1x2, ZERO_WIDTH, ZERO_HEIGHT, BAD_FILTER,
               NO_HEADER, WITH_EXTRAS, TWO_PRIVATE, BAD_CRC, TRUNCATED, BAD_SIGNATURE,
               TOO_SHORT}}
    \cup {[data |-> BAD_CRC, validate |-> FALSE]}

\* the chunk sizes the lifecycle runs pass to Image::compress
ChunkSizes == {None, Some(DefaultChunkSize), Some(7)}

(***************************************************************************)
(* The image object: its state after construction and its operations.      *)
(***************************************************************************)
\* Image::Image(): an empty chunk table, no trailing data, no scanlines
Init ==
    /\ chunk_map = EmptyMap
    /\ trailing_data = None
    /\ image_data = None
    /\ op = "new"
    /\ arg = <<>>
    /\ err = "ok"
    /\ out = <<>>
    /\ added = <<>>
    /\ calls = 0
    /\ entries = <<>>

\* the tEXt chunks of a chunk table
texts_of(cm) == IF map_find(cm, tEXt) THEN cm[tEXt] ELSE <<>>

\* Image::parse(data, validate); the record of added text payloads is kept
\* when the parse leaves the tEXt chunks as they were
Parse(in) ==
    /\ calls < MaxCalls
    /\ LET r == Image_parse(chunk_map, trailing_data, in.data, in.validate)
       IN  /\ chunk_map' = r.chunk_map
           /\ trailing_data' = r.trailing_data
           /\ err' = r.err
           /\ added' = IF texts_of(r.chunk_map) = texts_of(chunk_map) THEN added ELSE <<>>
    /\ op' = "parse"
    /\ arg' = in
    /\ out' = <<>>
    /\ calls' = calls + 1
    /\ UNCHANGED image_data
    /\ UNCHANGED entries

\* Image::decompress()
Decompress ==
    /\ calls < MaxCalls
    /\ LET r == Image_decompress(chunk_map, image_data)
       IN  image_data' = r.image_data /\ err' = r.err
    /\ op' = "decompress"
    /\ arg' = <<>>
    /\ out' = <<>>
    /\ calls' = calls + 1
    /\ UNCHANGED <<chunk_map, trailing_data, added>>
    /\ UNCHANGED entries

\* Image::reconstruct()
Reconstruct ==
    /\ calls < MaxCalls
    /\ LET r == Image_reconstruct(chunk_map, image_data)
       IN  image_data' = r.image_data /\ err' = r.err
    /\ op' = "reconstruct"
    /\ arg' = <<>>
    /\ out' = <<>>
    /\ calls' = calls + 1
    /\ UNCHANGED <<chunk_map, trailing_data, added>>
    /\ UNCHANGED entries

\* Image::load()
Load ==
    /\ calls < MaxCalls
    /\ LET r == Image_load(chunk_map, image_data)
       IN  image_data' = r.image_data /\ err' = r.err
    /\ op' = "load"
    /\ arg' = <<>>
    /\ out' = <<>>
    /\ calls' = calls + 1
    /\ UNCHANGED <<chunk_map, trailing_data, added>>
    /\ UNCHANGED entries

\* Image::filter()
Filter ==
    /\ calls < MaxCalls
    /\ LET r == Image_filter(chunk_map, image_data)
       IN  image_data' = r.image_data /\ err' = r.err
    /\ op' = "filter"
    /\ arg' = <<>>
    /\ out' = <<>>
    /\ calls' = calls + 1
    /\ UNCHANGED <<chunk_map, trailing_data, added>>
    /\ UNCHANGED entries

\* Image::compress(chunk_size)
Compress(chunk_size) ==
    /\ calls < MaxCalls
    /\ LET r == Image_compress(chunk_map, image_data, chunk_size)
       IN  chunk_map' = r.chunk_map /\ err' = r.err
    /\ op' = "compress"
    /\ arg' = chunk_size
    /\ out' = <<>>
    /\ calls' = calls + 1
    /\ UNCHANGED <<trailing_data, image_data, added>>
    /\ UNCHANGED entries

\* Image::to_file()
ToFile ==
    /\ calls < MaxCalls
    /\ out' = Image_to_file(chunk_map, trailing_data)
    /\ op' = "to_file"
    /\ arg' = <<>>
    /\ err' = "ok"
    /\ calls' = calls + 1
    /\ UNCHANGED <<chunk_map, trailing_data, image_data, added>>
    /\ UNCHANGED entries

Next ==
    \/ \E in \in ParseInputs : Parse(in)
    \/ Decompress
    \/ Reconstruct
    \/ Load
    \/ Filter
    \/ \E chunk_size \in ChunkSizes : Compress(chunk_size)
    \/ ToFile

Spec == Init /\ [][Next]_vars

(***************************************************************************)
(* Properties of the parse / load / filter / compress / to_file lifecycle. *)
(***************************************************************************)
\* the tags of the chunks Image::to_file writes, in the order it writes them
to_file_tags(cm) ==
    LET labels == to_file_labels(cm)
    IN  Concat([i \in 1..Len(labels) |->
               IF map_find(cm, labels[i])
               THEN [j \in 1..Len(cm[labels[i]]) |-> labels[i]] ELSE <<>>])
        \o (IF ~map_find(cm, IEND) THEN <<IEND>> ELSE <<>>)

\* the pixel bytes of all rows of a scanline vector, in order
raw_pixels(img) ==
    Concat([i \in 1..Len(value(img)) |-> pixels_to_raw(value(img)[i].pixel_data)])

\* filter -> compress -> to_file -> parse -> load, from a loaded image
reencode(cm, td, img) ==
    LET f == Image_filter(cm, img)
        c == Image_compress(cm, f.image_data, Some(DefaultChunkSize))
        p == Image_parse(EmptyMap, None, Image_to_file(c.chunk_map, td), TRUE)
        l == Image_load(p.chunk_map, None)
    IN  IF f.err # "ok" THEN [err |-> f.err, image_data |-> None]
        ELSE IF c.err # "ok" THEN [err |-> c.err, image_data |-> None]
        ELSE IF p.err # "ok" THEN [err |-> p.err, image_data |-> None]
        ELSE l

\* parse and load have accepted a non-interlaced image
LoadedNonInterlaced ==
    /\ op = "load" /\ err = "ok"
    /\ Image_header(chunk_map).data[13] = 0

\* C2 (as stated): for any non-interlaced PNG that parse and load accept,
\* filter -> compress -> to_file -> parse -> load succeeds and gives the raw
\* pixel bytes that parse -> load gave on the original input.
C2_PixelRoundTrip ==
    LoadedNonInterlaced =>
        LET r == reencode(chunk_map, trailing_data, image_data)
        IN  r.err = "ok" /\ raw_pixels(r.image_data) = raw_pixels(image_data)

\* C2 (amended): the same round trip, for the images whose header width is
\* at least 1.
C2_PixelRoundTripNonEmptyRows ==
    (LoadedNonInterlaced /\ u32_int(Header_width(Image_header(chunk_map))) >= 1) =>
        LET r == reencode(chunk_map, trailing_data, image_data)
        IN  r.err = "ok" /\ raw_pixels(r.image_data) = raw_pixels(image_data)

\* C2 (witness): a loaded image of two rows for which Image::filter picks a
\* filter other than None, so the re-encoded file differs in its filtering
C2_FilteredRowsReloaded ==
    /\ LoadedNonInterlaced
    /\ Len(value(image_data)) >= 2
    /\ LET f == Image_filter(chunk_map, image_data)
       IN  f.err = "ok" /\ \E i \in 1..Len(value(f.image_data)) :
                                value(f.image_data)[i].filter_type # 0

\* C6: for any input parse accepts, to_file of the parsed image starts with
\* the signature, parsing it again with CRC validation succeeds with the same
\* chunk table and trailing data, and to_file of the second parse is the
\* same byte string.
C6_ToFileParseIdempotent ==
    (op = "parse" /\ err = "ok") =>
        LET f == Image_to_file(chunk_map, trailing_data)
            p == Image_parse(EmptyMap, None, f, TRUE)
        IN  /\ Len(f) >= 8 /\ Slice(f, 1, 8) = Signature
            /\ p.err = "ok"
            /\ p.chunk_map = chunk_map
            /\ p.trailing_data = trailing_data
            /\ Image_to_file(p.chunk_map, p.trailing_data) = f

\* C6 (witness): an accepted input with chunks outside the fixed order, two
\* IDAT chunks and trailing data
C6_ParsedWithExtras ==
    /\ op = "parse" /\ err = "ok"
    /\ has_value(trailing_data)
    /\ map_find(chunk_map, IDAT) /\ Len(chunk_map[IDAT]) = 2
    /\ \E k \in DOMAIN chunk_map : k # IEND /\ k \notin SeqRange(KnownOrder)

\* C7: for every input parse accepts, the chunk table holds an IHDR chunk
\* and to_file writes, in order, IHDR, one or more IDAT, and IEND.
C7_ParsedHasHeaderAndData ==
    (op = "parse" /\ err = "ok") =>
        /\ Image_has_header(chunk_map)
        /\ LET t == to_file_tags(chunk_map)
           IN  \E i, j, k \in 1..Len(t) :
                   i < j /\ j < k /\ t[i] = IHDR /\ t[j] = IDAT /\ t[k] = IEND

\* C7 (witness): parse accepted an input without IHDR and without IDAT
C7_AcceptedWithoutHeader ==
    /\ op = "parse" /\ err = "ok"
    /\ ~Image_has_header(chunk_map)
    /\ ~Image_has_image_data(chunk_map)

\* C8: in every reachable state, a present scanline vector has header.height
\* rows, each of the header's pixel type, and parse leaves no scanline
\* vector behind.
C8_ScanlinesMatchHeader ==
    /\ (op = "parse" => ~Image_is_loaded(image_data))
    /\ Image_is_loaded(image_data) =>
           /\ Image_has_header(chunk_map)
           /\ Header_pixel_type(Image_header(chunk_map)).err = "ok"
           /\ Len(value(image_data)) = u32_int(Header_height(Image_header(chunk_map)))
           /\ \A i \in 1..Len(value(image_data)) :
                  value(image_data)[i].kind
                      = Header_pixel_type(Image_header(chunk_map)).kind

\* C8 (witness): a second input was parsed after a first one was loaded, and
\* the rows of the first are still there, of another pixel type than the
\* header now in the table
C8_StaleScanlinesAfterParse ==
    /\ op = "parse" /\ err = "ok"
    /\ Image_is_loaded(image_data)
    /\ Image_has_header(chunk_map)
    /\ \E i \in 1..Len(value(image_data)) :
           value(image_data)[i].kind # Header_pixel_type(Image_header(chunk_map)).kind

(***************************************************************************)
(* Scanlines on their own: ScanlineBase::filter(filter_type, previous)     *)
(* followed by ScanlineBase::reconstruct(previous), on rows of every pixel *)
(* kind.                                                                   *)
(***************************************************************************)
\* the byte patterns the rows are filled with: the n-th byte of a row is
\* first + n * step, modulo 256
BytePatterns == {<<0, 1>>, <<200, 97>>, <<255, 255>>, <<128, 13>>}

\* a row of the given kind and number of spans, with filter type 0
pattern_line(kind, spans, pat) ==
    ScanlineOf(kind, 0,
        [i \in 1..spans |->
            [j \in 1..SpanSize(kind) |->
                (pat[1] + ((((i - 1) * SpanSize(kind)) + j) * pat[2])) % 256]])

\* the calls drawn: a row s, an optional previous row p of the same span
\* count, and a filter type t
FilterInputs ==
    {[s |-> pattern_line(PixelEnum[k], n, a),
      p |-> IF b = <<>> THEN None ELSE Some(pattern_line(PixelEnum[k], n, b)),
      t |-> t] :
        k \in 1..Len(PixelEnum), n \in 1..MaxSpans, a \in BytePatterns,
        b \in {<<>>, <<7, 50>>, <<250, 3>>, <<16, 240>>}, t \in 0..4}

InitFilter ==
    /\ chunk_map = EmptyMap
    /\ trailing_data = None
    /\ image_data = None
    /\ op = "new"
    /\ arg \in FilterInputs
    /\ err = "ok"
    /\ out = <<>>
    /\ added = <<>>
    /\ calls = 0
    /\ entries = <<>>

\* s.filter(t, p)
FilterScanline ==
    /\ op = "new"
    /\ LET r == Scanline_filter_as(arg.s, arg.t, arg.p)
       IN  out' = r.line /\ err' = r.err
    /\ op' = "scanline_filter"
    /\ calls' = calls + 1
    /\ UNCHANGED <<chunk_map, trailing_data, image_data, arg, added>>
    /\ UNCHANGED entries

\* the filtered row's reconstruct(p)
ReconstructScanline ==
    /\ op = "scanline_filter" /\ err = "ok"
    /\ LET r == Scanline_reconstruct(out, arg.p)
       IN  out' = r.line /\ err' = r.err
    /\ op' = "scanline_reconstruct"
    /\ calls' = calls + 1
    /\ UNCHANGED <<chunk_map, trailing_data, image_data, arg, added>>
    /\ UNCHANGED entries

NextFilter == FilterScanline \/ ReconstructScanline

SpecFilter == InitFilter /\ [][NextFilter]_vars

\* C3: for every row s with filter type 0 and at least one span, every
\* optional previous row p of the same span count and every t in 0..4,
\* filter(s, t, p) succeeds and reconstruct(filter(s, t, p), p) has filter
\* type 0 and the span bytes of s, for span sizes 1, 2, 3, 4, 6 and 8.
C3_ReconstructInvertsFilter ==
    /\ op = "scanline_filter" => err = "ok" /\ out.filter_type = arg.t
    /\ op = "scanline_reconstruct" =>
           /\ err = "ok"
           /\ out.filter_type = 0
           /\ out.kind = arg.s.kind
           /\ out.pixel_data = arg.s.pixel_data

\* C3 (witness): a Paeth-filtered row of two 8-byte spans with a previous
\* row has been reconstructed, and filtering had changed its bytes
C3_PaethReconstructed ==
    /\ op = "scanline_reconstruct"
    /\ arg.t = 4 /\ has_value(arg.p)
    /\ SpanSize(arg.s.kind) = 8 /\ Len(arg.s.pixel_data) >= 2
    /\ Scanline_filter_as(arg.s, arg.t, arg.p).line.pixel_data # arg.s.pixel_data
    /\ {SpanSize(PixelEnum[k]) : k \in 1..Len(PixelEnum)} = {1, 2, 3, 4, 6, 8}

(***************************************************************************)
(* Trailing data and text payloads: an image object that is given trailing *)
(* bytes and base64 text payloads, written out and parsed back.            *)
(***************************************************************************)
\* the number of calls that set trailing data or handle text payloads
MaxFileCalls == MaxCalls - 1

\* the first n bytes of a byte string
prefix(s, n) == Slice(s, 1, n)

\* the byte strings passed to set_trailing_data
TrailingInputs == {prefix(<<80, 75, 3, 4, 0, 255>>, n) : n \in 0..MaxBytes}

\* a keyword of n bytes
keyword_of(n) == [i \in 1..n |-> 107]

\* the calls of add_text_payload drawn: two short keywords with payloads of
\* 0..MaxBytes bytes, a keyword of 79 bytes and one of 80
TextInputs ==
    {[keyword |-> k, data |-> prefix(<<255, 0, 77, 250, 9, 128>>, n)] :
        k \in {<<65>>, <<66, 67>>}, n \in 0..MaxBytes}
    \cup {[keyword |-> keyword_of(n), data |-> <<104, 105>>] :
              n \in {MaxKeyword, MaxKeyword + 1}}

\* the keywords passed to extract_text_payloads
ExtractInputs == {<<65>>, <<66, 67>>, keyword_of(MaxKeyword)}

\* Image::set_trailing_data
SetTrailingData(t) ==
    /\ calls < MaxFileCalls
    /\ trailing_data' = Some(t)
    /\ op' = "set_trailing_data"
    /\ arg' = t
    /\ err' = "ok"
    /\ out' = <<>>
    /\ calls' = calls + 1
    /\ UNCHANGED <<chunk_map, image_data, added>>
    /\ UNCHANGED entries

\* Image::clear_trailing_data
ClearTrailingData ==
    /\ calls < MaxFileCalls
    /\ trailing_data' = None
    /\ op' = "clear_trailing_data"
    /\ arg' = <<>>
    /\ err' = "ok"
    /\ out' = <<>>
    /\ calls' = calls + 1
    /\ UNCHANGED <<chunk_map, image_data, added>>
    /\ UNCHANGED entries

\* PNGPayload::add_text_payload(keyword, data)
AddTextPayload(in) ==
    /\ calls < MaxFileCalls
    /\ LET r == add_text_payload(chunk_map, in.keyword, in.data)
       IN  /\ chunk_map' = r.chunk_map
           /\ err' = r.err
           /\ added' = IF r.err = "ok" THEN Append(added, in) ELSE added
    /\ op' = "add_text_payload"
    /\ arg' = in
    /\ out' = <<>>
    /\ calls' = calls + 1
    /\ UNCHANGED <<trailing_data, image_data>>
    /\ UNCHANGED entries

\* PNGPayload::extract_text_payloads(keyword)
ExtractTextPayloads(keyword) ==
    /\ calls < MaxFileCalls
    /\ LET r == extract_text_payloads(chunk_map, keyword)
       IN  out' = r.data /\ err' = r.err
    /\ op' = "extract_text_payloads"
    /\ arg' = keyword
    /\ calls' = calls + 1
    /\ UNCHANGED <<chunk_map, trailing_data, image_data, added>>
    /\ UNCHANGED entries

\* Image::parse of the bytes to_file has just returned
Reparse ==
    /\ op = "to_file"
    /\ Parse([data |-> out, validate |-> TRUE])

NextFile ==
    \/ \E t \in TrailingInputs : SetTrailingData(t)
    \/ ClearTrailingData
    \/ \E in \in TextInputs : AddTextPayload(in)
    \/ \E keyword \in ExtractInputs : ExtractTextPayloads(keyword)
    \/ ToFile
    \/ Reparse
    \/ Parse([data |-> RGB_2x2, validate |-> TRUE])

SpecFile == Init /\ [][NextFile]_vars

\* what parsing the bytes of to_file gives, from a new image object
written_and_parsed == Image_parse(EmptyMap, None, Image_to_file(chunk_map, trailing_data), TRUE)

\* C4 (as stated): for every byte string t, of 0 or more bytes, after
\* set_trailing_data(t) and to_file, parsing the output gives an image with
\* has_trailing_data() true and trailing data t.
C4_TrailingRoundTrip ==
    op = "set_trailing_data" =>
        /\ written_and_parsed.err = "ok"
        /\ has_value(written_and_parsed.trailing_data)
        /\ value(written_and_parsed.trailing_data) = arg

\* C4 (amended): the same for every byte string t of 1 or more bytes.
C4_TrailingRoundTripNonEmpty ==
    (op = "set_trailing_data" /\ Len(arg) >= 1) =>
        /\ written_and_parsed.err = "ok"
        /\ has_value(written_and_parsed.trailing_data)
        /\ value(written_and_parsed.trailing_data) = arg

\* C4 (witness): two or more trailing bytes were set on an image that holds
\* a header or a text chunk
C4_TrailingSetOnImage ==
    /\ op = "set_trailing_data" /\ Len(arg) >= 2
    /\ Image_has_header(chunk_map) \/ Image_has_text(chunk_map)
    /\ written_and_parsed.chunk_map # EmptyMap

\* the payloads recorded under a keyword, in the order they were added
RECURSIVE added_under(_, _)
added_under(list, keyword) ==
    IF list = <<>> THEN <<>>
    ELSE added_under(Slice(list, 1, Len(list) - 1), keyword)
         \o (IF list[Len(list)].keyword = keyword THEN <<list[Len(list)].data>> ELSE <<>>)

\* C5: for every keyword k of 1..79 bytes and every byte string x of 0 or
\* more bytes, after add_text_payload(k, x), to_file and a parse of the
\* output, extract_text_payloads(k) succeeds and returns the payloads added
\* under k in insertion order, the last of them x.
C5_TextPayloadRoundTrip ==
    (op = "add_text_payload" /\ Len(arg.keyword) \in 1..MaxKeyword) =>
        /\ err = "ok"
        /\ written_and_parsed.err = "ok"
        /\ LET e == extract_text_payloads(written_and_parsed.chunk_map, arg.keyword)
           IN  /\ e.err = "ok"
               /\ e.data = added_under(added, arg.keyword)
               /\ e.data[Len(e.data)] = arg.data

\* C5 (witness): an empty payload was added, and reading the payloads of
\* its keyword back from the written file ends in std::out_of_range
C5_EmptyPayloadUnreadable ==
    /\ op = "add_text_payload" /\ err = "ok"
    /\ arg.data = <<>>
    /\ written_and_parsed.err = "ok"
    /\ extract_text_payloads(written_and_parsed.chunk_map, arg.keyword).err = "out_of_range"

(***************************************************************************)
(* The stego carrier: an image object that is parsed, loaded, written to   *)
(* and read from with the stego calls of PNGPayload.                       *)
(***************************************************************************)
\* the raw data of rows with filter type 0 whose n-th byte is 31 * n mod 256
plain_rows(height, row_bytes) ==
    Concat([i \in 1..height |->
               <<0>> \o [j \in 1..row_bytes |-> ((((i - 1) * row_bytes) + j) * 31) % 256]])

\* 5x3 8-bit truecolour: room for 22 bytes of stego data
RGB_5x3 == png_of(MakeHeader(5, 3, 8, 2), plain_rows(3, 15))

\* 4x4 8-bit truecolour with alpha: room for 24 bytes of stego data
RGBA_4x4 == png_of(MakeHeader(4, 4, 8, 6), plain_rows(4, 16))

\* a header of 65536 x 65536 8-bit truecolour pixels; the product
\* width * height * 3 * 4 does not fit 32 bits.  The image data is left out.
HUGE_RGB ==
    file_of(<<MakeHeader(65536, 65536, 8, 2), ChunkVec(IDAT, compress(<<>>)),
              ChunkVec(IEND, <<>>)>>, <<>>)

\* the file of an image create_stego_payload returned for RGB_5x3 and a
\* payload of one byte
STEGO_RGB ==
    LET p == Image_parse(EmptyMap, None, RGB_5x3, TRUE)
        c == create_stego_payload(p.chunk_map, p.trailing_data, None, <<200>>)
    IN  Image_to_file(c.result.chunk_map, c.result.trailing_data)

\* 1x1 8-bit truecolour: room for one byte and a half of stego data
RGB_1x1 == png_of(MakeHeader(1, 1, 8, 2), <<0, 70, 67, 68>>)

StegoInputs ==
    {[data |-> d, validate |-> TRUE] :
        d \in {RGB_5x3, RGBA_4x4, HUGE_RGB, STEGO_RGB, GRAY1_3x2, RGB_1x1}}

\* the bit offsets passed to read_stego_data and write_stego_data
StegoOffsets == {0, 4, 6, 172}

\* the byte strings passed to write_stego_data and create_stego_payload
StegoData == {prefix(<<33, 195, 101, 15, 240, 7>>, n) : n \in 0..MaxBytes}

\* PNGPayload::write_stego_data(data, bit_offset)
WriteStegoData(data, bit_offset) ==
    /\ calls < MaxCalls
    /\ LET r == write_stego_data(chunk_map, image_data, data, size_t(bit_offset))
       IN  image_data' = r.image_data /\ err' = r.err
    /\ op' = "write_stego_data"
    /\ arg' = [data |-> data, bit_offset |-> bit_offset]
    /\ out' = <<>>
    /\ calls' = calls + 1
    /\ UNCHANGED <<chunk_map, trailing_data, added>>
    /\ UNCHANGED entries

\* PNGPayload::read_stego_data(bit_offset, size)
ReadStegoData(bit_offset, size) ==
    /\ calls < MaxCalls
    /\ LET r == read_stego_data(chunk_map, image_data, size_t(bit_offset), size_t(size))
       IN  out' = r.data /\ err' = r.err
    /\ op' = "read_stego_data"
    /\ arg' = [bit_offset |-> bit_offset, size |-> size]
    /\ calls' = calls + 1
    /\ UNCHANGED <<chunk_map, trailing_data, image_data, added>>
    /\ UNCHANGED entries

\* PNGPayload::has_stego_payload()
HasStegoPayload ==
    /\ calls < MaxCalls
    /\ LET r == has_stego_payload(chunk_map, image_data)
       IN  out' = r.value /\ err' = r.err
    /\ op' = "has_stego_payload"
    /\ arg' = <<>>
    /\ calls' = calls + 1
    /\ UNCHANGED <<chunk_map, trailing_data, image_data, added>>
    /\ UNCHANGED entries

\* PNGPayload::extract_stego_payload()
ExtractStegoPayload ==
    /\ calls < MaxCalls
    /\ LET r == extract_stego_payload(chunk_map, image_data)
       IN  out' = r.data /\ err' = r.err
    /\ op' = "extract_stego_payload"
    /\ arg' = <<>>
    /\ calls' = calls + 1
    /\ UNCHANGED <<chunk_map, trailing_data, image_data, added>>
    /\ UNCHANGED entries

\* PNGPayload::create_stego_payload(x): the object itself is const, the
\* returned object is kept in out
CreateStegoPayload(x) ==
    /\ calls < MaxCalls
    /\ LET r == create_stego_payload(chunk_map, trailing_data, image_data, x)
       IN  out' = r.result /\ err' = r.err
    /\ op' = "create_stego_payload"
    /\ arg' = x
    /\ calls' = calls + 1
    /\ UNCHANGED <<chunk_map, trailing_data, image_data, added>>
    /\ UNCHANGED entries

NextStego ==
    \/ \E in \in StegoInputs : Parse(in)
    \/ Load
    \/ \E data \in StegoData, bit_offset \in StegoOffsets : WriteStegoData(data, bit_offset)
    \/ \E bit_offset \in StegoOffsets, size \in {1, MaxBytes} : ReadStegoData(bit_offset, size)
    \/ HasStegoPayload
    \/ ExtractStegoPayload
    \/ \E x \in StegoData : CreateStegoPayload(x)

SpecStego == Init /\ [][NextStego]_vars

\* to_file of the object in out, parsed with CRC validation and loaded, then
\* asked for its stego payload
stego_read_back(image) ==
    Then(Image_parse(EmptyMap, None, Image_to_file(image.chunk_map, image.trailing_data),
                     TRUE),
         LAMBDA p :
             IF p.err # "ok" THEN [err |-> p.err, has |-> FALSE, data |-> <<>>]
             ELSE Then(Image_load(p.chunk_map, None), LAMBDA l :
                      IF l.err # "ok" THEN [err |-> l.err, has |-> FALSE, data |-> <<>>]
                      ELSE Then(has_stego_payload(p.chunk_map, l.image_data), LAMBDA h :
                               IF h.err # "ok" \/ ~h.value
                               THEN [err |-> h.err, has |-> FALSE, data |-> <<>>]
                               ELSE Then(extract_stego_payload(p.chunk_map, l.image_data),
                                         LAMBDA e : [err |-> e.err, has |-> TRUE,
                                                     data |-> e.data]))))

\* the framed blob of x fits in (width * height * 12) / 8 bytes, the product
\* taken over the integers
stego_fits(header, x) ==
    LET pixels == BigMul(le32(Header_width(header)), le32(Header_height(header)))
        capacity == BigDiv8(BigMul(pixels, <<12>>))
        framed == Len(StegoHeader) + 4 + Len(compress(x)) + Len(StegoFooter)
    IN  ~BigLess(capacity, BigOfInt(framed))

\* create_stego_payload(x) was called on an 8-bit truecolour or alpha
\* truecolour image that has room for the framed blob of x
CreatedWithRoom ==
    /\ op = "create_stego_payload"
    /\ Image_has_header(chunk_map)
    /\ Header_pixel_type(Image_header(chunk_map)).err = "ok"
    /\ Header_pixel_type(Image_header(chunk_map)).kind \in StegoKinds
    /\ stego_fits(Image_header(chunk_map), arg)

\* C1: for any 8-bit truecolour or alpha-truecolour image and any x whose
\* framed blob fits in (width * height * 12) / 8 bytes, create_stego_payload(x)
\* succeeds and its to_file, parsed again and loaded, has a stego payload
\* that extracts to x.
C1_StegoPayloadRoundTrip ==
    CreatedWithRoom =>
        /\ err = "ok"
        /\ stego_read_back(out) = [err |-> "ok", has |-> TRUE, data |-> arg]

\* C1 (witness): the image has room for the blob by the integer product, and
\* create_stego_payload refused it as too small
C1_RoomRefused ==
    /\ CreatedWithRoom
    /\ err = "ImageTooSmall"

\* the nibble offset of colour channel c (1..3) of the pixel at row y,
\* column x (both from 1) in an image of the given width
channel_offset(width, y, x, c) == (12 * (((y - 1) * width) + (x - 1))) + (4 * (c - 1))

\* what the claim lets write_stego_data(data, b) leave in one sample
written_sample(old, data, b, off, c) ==
    IF c <= 3 /\ off >= b /\ off < b + (8 * Len(data))
    THEN ((old \div 16) * 16)
         + ((data[((off - b) \div 8) + 1] \div Pow2((off - b) % 8)) % 16)
    ELSE old

\* C9: a write_stego_data(data, b) that succeeds stores the nibbles of data
\* in the low nibbles of the channels at offsets b, b+4, ..., b+8n-4, one
\* channel per nibble, and leaves every other nibble of the image as it was.
C9_WriteTouchesAddressedNibbles ==
    [][(op' = "write_stego_data" /\ err' = "ok") =>
          LET before == value(image_data)
              after == value(image_data')
              width == u32_int(Header_width(Image_header(chunk_map)))
          IN  /\ Len(after) = Len(before)
              /\ \A y \in 1..Len(before) :
                     /\ Len(after[y].pixel_data) = Len(before[y].pixel_data)
                     /\ \A x \in 1..Len(before[y].pixel_data) :
                            \A c \in 1..Len(before[y].pixel_data[x]) :
                                after[y].pixel_data[x][c]
                                    = written_sample(before[y].pixel_data[x][c],
                                                     arg'.data, arg'.bit_offset,
                                                     channel_offset(width, y, x, c), c)
      ]_vars

\* C9 (witness): one byte was written at offset 0 of a freshly loaded image,
\* and the blue channel of the first pixel, which no nibble of that byte
\* addresses, no longer holds the nibble it was loaded with
C9_BlueOverwritten ==
    /\ op = "write_stego_data" /\ err = "ok"
    /\ Len(arg.data) = 1 /\ arg.bit_offset = 0
    /\ LET loaded == Image_load(chunk_map, None)
       IN  /\ loaded.err = "ok"
           /\ value(image_data)[1].pixel_data[1][3]
                  # value(loaded.image_data)[1].pixel_data[1][3]
           /\ value(image_data)[1].pixel_data[1][3] % 16 = arg.data[1] \div 16

(***************************************************************************)
(* The argument checks of read_stego_data and write_stego_data on their    *)
(* own, over 32-bit widths and heights and 64-bit offsets and sizes.       *)
(***************************************************************************)
\* widths and heights, as Header holds them
GuardDims ==
    {u32(0), u32(1), u32(3), u32(20000), u32(65536), <<255, 255, 255, 255>>}

\* bit offsets, as std::size_t
GuardOffsets ==
    {size_t(0), size_t(4), size_t(6), size_t(36), size_t(48),
     <<252, 255, 255, 255, 255, 255, 255, 255>>}

\* sizes, as std::size_t: small ones, 2^29 and 2^61
GuardSizes ==
    {size_t(n) : n \in 0..MaxBytes}
    \cup {<<0, 0, 0, 32, 0, 0, 0, 0>>, <<0, 0, 0, 0, 0, 0, 0, 32>>}

InitGuard ==
    /\ chunk_map = EmptyMap
    /\ trailing_data = None
    /\ image_data = None
    /\ op = "new"
    /\ arg \in [width : GuardDims, height : GuardDims,
                bit_offset : GuardOffsets, size : GuardSizes]
    /\ err = "ok"
    /\ out = <<>>
    /\ added = <<>>
    /\ calls = 0
    /\ entries = <<>>

\* the checks at the head of read_stego_data(bit_offset, size)
ReadStegoGuard ==
    /\ op = "new"
    /\ err' = stego_bounds(arg.width, arg.height, arg.bit_offset, arg.size)
    /\ op' = "read_stego_guard"
    /\ calls' = calls + 1
    /\ UNCHANGED <<chunk_map, trailing_data, image_data, arg, out, added>>
    /\ UNCHANGED entries

\* the checks at the head of write_stego_data(data of size bytes, bit_offset)
WriteStegoGuard ==
    /\ op = "new"
    /\ err' = stego_bounds(arg.width, arg.height, arg.bit_offset, arg.size)
    /\ op' = "write_stego_guard"
    /\ calls' = calls + 1
    /\ UNCHANGED <<chunk_map, trailing_data, image_data, arg, out, added>>
    /\ UNCHANGED entries

NextGuard == ReadStegoGuard \/ WriteStegoGuard

SpecGuard == InitGuard /\ [][NextGuard]_vars

\* the outcome the claim gives: InvalidBitOffset for an offset that is not
\* a multiple of 4, else OutOfBounds when b + 8n exceeds width*height*3*4
\* over the integers, else success
stego_bounds_expected(width, height, bit_offset, size) ==
    IF (bit_offset[1] % 4) # 0 THEN "InvalidBitOffset"
    ELSE IF BigLess(BigMul(BigMul(le32(width), le32(height)), <<12>>),
                    BigAdd(bit_offset, BigMul(size, <<8>>)))
    THEN "OutOfBounds"
    ELSE "ok"

\* C10: read_stego_data(b, n) and write_stego_data(n bytes, b) fail with
\* InvalidBitOffset iff b is not a multiple of 4, otherwise with OutOfBounds
\* iff b + 8n > width * height * 3 * 4 over the integers, otherwise succeed.
C10_GuardMatchesIntegers ==
    op \in {"read_stego_guard", "write_stego_guard"} =>
        err = stego_bounds_expected(arg.width, arg.height, arg.bit_offset, arg.size)

\* C10 (witness): one byte at offset 0 of a 65536 x 65536 image is refused
\* as out of bounds
C10_WrappedCapacity ==
    /\ op = "write_stego_guard"
    /\ arg.width = u32(65536) /\ arg.height = u32(65536)
    /\ arg.bit_offset = size_t(0) /\ arg.size = size_t(1)
    /\ err = "OutOfBounds"

(***************************************************************************)
(* Detection of the stego frame on images that carry none.                 *)
(***************************************************************************)
\* the low nibbles of the colour channels of the rows, in row-major order,
\* red, green, blue of each pixel (rows of another pixel kind give none)
stego_nibbles(rows) ==
    Concat([y \in 1..Len(rows) |->
        IF rows[y].kind \notin StegoKinds THEN <<>>
        ELSE Concat([x \in 1..Len(rows[y].pixel_data) |->
                        [c \in 1..3 |-> rows[y].pixel_data[x][c] % 16]])])

\* the image is loaded and the nibbles at bit offset 0 do not spell 'F' 'C'
\* 'D', low nibble of each byte first: no frame starts there
LoadedWithoutFrame ==
    /\ Image_is_loaded(image_data)
    /\ LET n == stego_nibbles(value(image_data))
       IN  Len(n) < 6 \/ Slice(n, 1, 6) # <<6, 4, 3, 4, 4, 4>>

\* C11: on every loaded image that carries no frame at bit offset 0,
\* has_stego_payload returns false without raising and
\* extract_stego_payload fails with NoStegoData.
C11_NoFrameIsNoStegoData ==
    LoadedWithoutFrame =>
        /\ op = "has_stego_payload" => (err = "ok" /\ out = FALSE)
        /\ op = "extract_stego_payload" => err = "NoStegoData"

\* C11 (witness): has_stego_payload was asked of a loaded 1x1 truecolour
\* image, which has room for 12 bits, and raised OutOfBounds
C11_TinyImageRaises ==
    /\ LoadedWithoutFrame
    /\ op = "has_stego_payload"
    /\ Image_has_header(chunk_map)
    /\ u32_int(Header_width(Image_header(chunk_map))) = 1
    /\ Len(value(image_data)) = 1
    /\ err = "OutOfBounds"

(***************************************************************************)
(* The order of the chunks Image::to_file writes, against the order in     *)
(* which Image::parse stored them.                                         *)
(***************************************************************************)
\* the chunks of a file parse accepts, in file order, up to the first IEND
RECURSIVE file_chunks(_, _, _)
file_chunks(buf, offset, acc) ==
    Then(ChunkPtr_parse(buf, offset), LAMBDA c :
        IF c.err # "ok" THEN acc
        ELSE Then(Append(acc, ChunkPtr_to_chunk_vec(c)), LAMBDA acc2 :
                 IF c.tag = IEND THEN acc2
                 ELSE file_chunks(buf, offset + ChunkPtr_chunk_size(c), acc2)))

\* the tags of a chunk list outside the fixed order and other than IEND,
\* each once, in the order of their first chunk
RECURSIVE other_tags(_, _, _)
other_tags(chunks, i, acc) ==
    IF i > Len(chunks) THEN acc
    ELSE LET tag == chunks[i].tag
         IN  other_tags(chunks, i + 1,
                 IF tag = IEND \/ tag \in SeqRange(KnownOrder) \/ tag \in SeqRange(acc)
                 THEN acc ELSE Append(acc, tag))

\* the chunks of a list that carry the tag, in list order
chunks_tagged(chunks, tag) == SelectSeq(chunks, LAMBDA c : c.tag = tag)

\* the file that holds the chunks by tag in the fixed order, then the chunks
\* of the given other tags, then one IEND and the trailing data
ordered_file(chunks, others, td) ==
    LET labels == KnownOrder \o others \o <<IEND>>
    IN  Signature
        \o Concat([i \in 1..Len(labels) |-> emit_chunks(chunks_tagged(chunks, labels[i]))])
        \o (IF chunks_tagged(chunks, IEND) = <<>>
            THEN ChunkVec_to_chunk_ptr(ChunkVec(IEND, <<>>)) ELSE <<>>)
        \o (IF has_value(td) THEN value(td) ELSE <<>>)

\* tag a comes before tag b, byte by byte
tag_before(a, b) == \E i \in 1..4 : a[i] < b[i] /\ \A j \in 1..(i - 1) : a[j] = b[j]

\* the tags of a sequence without repetitions, in ascending order
ascending_tags(tags) ==
    CHOOSE s \in [1..Len(tags) -> SeqRange(tags)] :
        /\ SeqRange(s) = SeqRange(tags)
        /\ \A i \in 1..(Len(tags) - 1) : tag_before(s[i], s[i + 1])

\* C12 (as stated): to_file of a parsed image is the signature, the chunks
\* by tag in the fixed order, every other tag but IEND in the order of its
\* insertion, one IEND and the trailing data; chunks of one tag keep their
\* insertion order.
C12_ToFileInsertionOrder ==
    (op = "parse" /\ err = "ok") =>
        LET chunks == file_chunks(arg.data, 8, <<>>)
        IN  Image_to_file(chunk_map, trailing_data)
                = ordered_file(chunks, other_tags(chunks, 1, <<>>), trailing_data)

\* C12 (amended): the same, with every other tag but IEND in ascending order
\* of the bytes of the tag.
C12_ToFileTagOrder ==
    (op = "parse" /\ err = "ok") =>
        LET chunks == file_chunks(arg.data, 8, <<>>)
        IN  Image_to_file(chunk_map, trailing_data)
                = ordered_file(chunks, ascending_tags(other_tags(chunks, 1, <<>>)),
                               trailing_data)

\* C12 (witness): parse stored the private tag vpAg before the private tag
\* prVt, and to_file writes the chunk of prVt first
C12_PrivateTagsSorted ==
    /\ op = "parse" /\ err = "ok"
    /\ other_tags(file_chunks(arg.data, 8, <<>>), 1, <<>>)
           = << <<118, 112, 65, 103>>, <<112, 114, 86, 116>> >>
    /\ SelectSeq(to_file_tags(chunk_map),
                 LAMBDA tag : tag \in {<<118, 112, 65, 103>>, <<112, 114, 86, 116>>})
           = << <<112, 114, 86, 116>>, <<118, 112, 65, 103>> >>

(***************************************************************************)
(* Indexed access: PixelSpan::get / set, ScanlineBase::get_span, set_span, *)
(* get_pixel, set_pixel and Image::scanline.  A Pixel is its kind and the  *)
(* bytes of the alternative (for a kind below 8 bits, the one sample).     *)
(* Each operator gives the set of outcomes of the call: where the code     *)
(* reads or writes past the end of a vector, or shifts by a count as wide  *)
(* as the operand, the behaviour is undefined and the set holds more than  *)
(* one outcome.                                                            *)
(***************************************************************************)
PixelOf(kind, data) == [kind |-> kind, data |-> data]

\* PixelType::Max of a kind below 8 bits
SampleMax(kind) == Pow2(PixelBits[kind]) - 1

\* the bytes an out-of-range read may find and an out-of-range write may leave
UndefinedBytes == {0, 255}

\* Sample::set_value, reached through the constructor of the pixel: the
\* pixel of a kind below 8 bits that holds value
Sample_set_value(kind, v) ==
    IF v > SampleMax(kind) THEN [err |-> "IntegerOverflow", pixel |-> PixelOf(kind, <<>>)]
    ELSE [err |-> "ok", pixel |-> PixelOf(kind, <<And8(v, SampleMax(kind))>>)]

\* PixelSpan::get(index)
PixelSpan_get(kind, span, index) ==
    LET Samples == SpanSamples(kind)
        Bits == PixelBits[kind]
    IN  IF index > Samples THEN {[err |-> "OutOfBounds", pixel |-> PixelOf(kind, <<>>)]}
        ELSE IF Bits < 8
        THEN IF index = Samples
             \* (Samples - 1 - index) * Bits wraps to a shift count of 2^64 - Bits
             THEN {[err |-> "ok", pixel |-> PixelOf(kind, <<v>>)] : v \in 0..SampleMax(kind)}
             ELSE {[err |-> "ok",
                    pixel |-> PixelOf(kind,
                        <<And8(span[1] \div Pow2((Samples - 1 - index) * Bits),
                               SampleMax(kind))>>)]}
        ELSE {[err |-> "ok", pixel |-> PixelOf(kind, span)]}

\* PixelSpan::set with index 0 in the lowest-order bits: a shift of
\* index * Bits
PixelSpan_set_low_first(kind, span, pixel, index) ==
    LET Samples == SpanSamples(kind)
        Bits == PixelBits[kind]
    IN  IF pixel.kind # kind THEN {[err |-> "PixelMismatch", span |-> span]}
        ELSE IF index > Samples \/ Bits >= 8 THEN {[err |-> "OutOfBounds", span |-> span]}
        ELSE LET shift == (index % Samples) * Bits
                 mask == Xor8((SampleMax(kind) * Pow2(shift)) % 256, 255)
             IN  {[err |-> "ok",
                   span |-> <<Or8(And8(span[1], mask),
                                  (pixel.data[1] * Pow2(shift)) % 256)>>]}

\* PixelSpan::set(pixel, index): the span the call leaves
PixelSpan_set(kind, span, pixel, index) ==
    LET Samples == SpanSamples(kind)
        Bits == PixelBits[kind]
    IN  IF pixel.kind # kind THEN {[err |-> "PixelMismatch", span |-> span]}
        ELSE IF index > Samples THEN {[err |-> "OutOfBounds", span |-> span]}
        ELSE IF Bits < 8
        THEN IF index = Samples
             THEN {[err |-> "ok", span |-> s] :
                      s \in {span} \cup {<<b>> : b \in UndefinedBytes}}
             ELSE LET shift == (Samples - 1 - index) * Bits
                      mask == Xor8((SampleMax(kind) * Pow2(shift)) % 256, 255)
                  IN  {[err |-> "ok",
                        span |-> <<Or8(And8(span[1], mask),
                                       (pixel.data[1] * Pow2(shift)) % 256)>>]}
        ELSE {[err |-> "ok", span |-> pixel.data]}

\* ScanlineBase::get_span(index)
ScanlineBase_get_span(line, index) ==
    IF index > Len(line.pixel_data) THEN {[err |-> "OutOfBounds", span |-> <<>>]}
    ELSE IF index = Len(line.pixel_data)
    THEN {[err |-> "SIGSEGV", span |-> <<>>]}
         \cup {[err |-> "ok", span |-> [j \in 1..SpanSize(line.kind) |-> b]] :
                  b \in UndefinedBytes}
    ELSE {[err |-> "ok", span |-> line.pixel_data[index + 1]]}

\* ScanlineBase::set_span(span, index): the scanline the call leaves
ScanlineBase_set_span(line, span, index) ==
    IF index > Len(line.pixel_data) THEN {[err |-> "OutOfBounds", line |-> line]}
    ELSE IF index = Len(line.pixel_data)
    THEN {[err |-> e, line |-> line] : e \in {"SIGSEGV", "ok"}}
    ELSE {[err |-> "ok", line |-> [line EXCEPT !.pixel_data[index + 1] = span]]}

\* ScanlineBase::get_pixel(index)
ScanlineBase_get_pixel(line, index) ==
    LET Samples == SpanSamples(line.kind)
    IN  IF index > Len(line.pixel_data) * Samples
        THEN {[err |-> "OutOfBounds", pixel |-> PixelOf(line.kind, <<>>)]}
        ELSE UNION {IF s.err # "ok"
                    THEN {[err |-> s.err, pixel |-> PixelOf(line.kind, <<>>)]}
                    ELSE PixelSpan_get(line.kind, s.span, index % Samples) :
                        s \in ScanlineBase_get_span(line, index \div Samples)}

\* ScanlineBase::set_pixel(pixel, index): the scanline the call leaves
ScanlineBase_set_pixel(line, pixel, index) ==
    LET Samples == SpanSamples(line.kind)
    IN  IF index > Len(line.pixel_data) * Samples
        THEN {[err |-> "OutOfBounds", line |-> line]}
        ELSE IF (index \div Samples) >= Len(line.pixel_data)
        \* get_span hands out a reference past the end, and set writes there
        THEN UNION {IF s.err # "ok" THEN {[err |-> s.err, line |-> line]}
                    ELSE {[err |-> w.err, line |-> line] :
                             w \in PixelSpan_set(line.kind, s.span, pixel, index % Samples)} :
                        s \in ScanlineBase_get_span(line, index \div Samples)}
        ELSE {[err |-> w.err,
               line |-> [line EXCEPT !.pixel_data[(index \div Samples) + 1] = w.span]] :
                 w \in PixelSpan_set(line.kind, line.pixel_data[(index \div Samples) + 1],
                                     pixel, index % Samples)}

\* Image::scanline(index)
Image_scanline(img, index) ==
    IF ~has_value(img) THEN {[err |-> "NoImageData", line |-> <<>>]}
    ELSE IF index > Len(value(img)) THEN {[err |-> "OutOfBounds", line |-> <<>>]}
    ELSE IF index = Len(value(img))
    THEN {[err |-> "SIGSEGV", line |-> <<>>], [err |-> "ok", line |-> <<>>]}
    ELSE {[err |-> "ok", line |-> value(img)[index + 1]]}

(***************************************************************************)
(* The accessors called on an image object: Image::scanline(index), and    *)
(* the accessors of its first scanline and of that scanline's first span.  *)
(***************************************************************************)
AccessInputs ==
    {[data |-> d, validate |-> TRUE] : d \in {RGB_2x2, GRAY1_3x2, GRAYA16_1x2}}

\* the indexes passed to the accessors: below, at and above each count
AccessIndexes == {0, 1, 2, 3, 8, 9}

\* the pixel of a kind whose bytes all hold v (below 8 bits, the sample v)
pixel_of_value(kind, v) ==
    IF PixelBits[kind] < 8 THEN Sample_set_value(kind, v)
    ELSE [err |-> "ok", pixel |-> PixelOf(kind, [j \in 1..SpanSize(kind) |-> v])]

\* image_data with its first scanline replaced
with_first_line(img, line) == Some([value(img) EXCEPT ![1] = line])

\* image.scanline(index)
ScanlineAt(index) ==
    /\ calls < MaxCalls
    /\ \E r \in Image_scanline(image_data, index) : out' = r.line /\ err' = r.err
    /\ op' = "scanline"
    /\ arg' = [index |-> index]
    /\ calls' = calls + 1
    /\ UNCHANGED <<chunk_map, trailing_data, image_data, added>>
    /\ UNCHANGED entries

\* image.scanline(0).get_span(index)
GetSpan(index) ==
    /\ calls < MaxCalls
    /\ \E l \in Image_scanline(image_data, 0) :
           IF l.err # "ok" THEN out' = <<>> /\ err' = l.err
           ELSE \E r \in ScanlineBase_get_span(l.line, index) :
                    out' = r.span /\ err' = r.err
    /\ op' = "get_span"
    /\ arg' = [index |-> index]
    /\ calls' = calls + 1
    /\ UNCHANGED <<chunk_map, trailing_data, image_data, added>>
    /\ UNCHANGED entries

\* image.scanline(0).set_span(span, index), span holding the byte 170
SetSpan(index) ==
    /\ calls < MaxCalls
    /\ \E l \in Image_scanline(image_data, 0) :
           IF l.err # "ok" THEN image_data' = image_data /\ err' = l.err
           ELSE \E r \in ScanlineBase_set_span(l.line,
                             [j \in 1..SpanSize(l.line.kind) |-> 170], index) :
                    image_data' = with_first_line(image_data, r.line) /\ err' = r.err
    /\ op' = "set_span"
    /\ arg' = [index |-> index]
    /\ out' = <<>>
    /\ calls' = calls + 1
    /\ UNCHANGED <<chunk_map, trailing_data, added>>
    /\ UNCHANGED entries

\* image.scanline(0).get_pixel(index)
GetPixel(index) ==
    /\ calls < MaxCalls
    /\ \E l \in Image_scanline(image_data, 0) :
           IF l.err # "ok" THEN out' = <<>> /\ err' = l.err
           ELSE \E r \in ScanlineBase_get_pixel(l.line, index) :
                    out' = r.pixel /\ err' = r.err
    /\ op' = "get_pixel"
    /\ arg' = [index |-> index]
    /\ calls' = calls + 1
    /\ UNCHANGED <<chunk_map, trailing_data, image_data, added>>
    /\ UNCHANGED entries

\* image.scanline(0).set_pixel(pixel, index), pixel of the scanline's kind
\* holding v
SetPixel(v, index) ==
    /\ calls < MaxCalls
    /\ \E l \in Image_scanline(image_data, 0) :
           IF l.err # "ok" THEN image_data' = image_data /\ err' = l.err
           ELSE LET p == pixel_of_value(l.line.kind, v)
                IN  IF p.err # "ok" THEN image_data' = image_data /\ err' = p.err
                    ELSE \E r \in ScanlineBase_set_pixel(l.line, p.pixel, index) :
                             /\ image_data' = with_first_line(image_data, r.line)
                             /\ err' = r.err
    /\ op' = "set_pixel"
    /\ arg' = [index |-> index, value |-> v]
    /\ out' = <<>>
    /\ calls' = calls + 1
    /\ UNCHANGED <<chunk_map, trailing_data, added>>
    /\ UNCHANGED entries

\* image.scanline(0).get_span(0).get(index)
SpanGet(index) ==
    /\ calls < MaxCalls
    /\ \E l \in Image_scanline(image_data, 0) :
           IF l.err # "ok" THEN out' = <<>> /\ err' = l.err
           ELSE \E s \in ScanlineBase_get_span(l.line, 0) :
                    IF s.err # "ok" THEN out' = <<>> /\ err' = s.err
                    ELSE \E r \in PixelSpan_get(l.line.kind, s.span, index) :
                             out' = r.pixel /\ err' = r.err
    /\ op' = "span_get"
    /\ arg' = [index |-> index]
    /\ calls' = calls + 1
    /\ UNCHANGED <<chunk_map, trailing_data, image_data, added>>
    /\ UNCHANGED entries

\* image.scanline(0).get_span(0).set(pixel, index), pixel of the scanline's
\* kind holding v
SpanSet(v, index) ==
    /\ calls < MaxCalls
    /\ \E l \in Image_scanline(image_data, 0) :
           IF l.err # "ok" THEN image_data' = image_data /\ err' = l.err
           ELSE \E s \in ScanlineBase_get_span(l.line, 0) :
                    LET p == pixel_of_value(l.line.kind, v)
                    IN  IF s.err # "ok" THEN image_data' = image_data /\ err' = s.err
                        ELSE IF p.err # "ok" THEN image_data' = image_data /\ err' = p.err
                        ELSE \E r \in PixelSpan_set(l.line.kind, s.span, p.pixel, index) :
                                 /\ image_data' = with_first_line(image_data,
                                        [l.line EXCEPT !.pixel_data[1] = r.span])
                                 /\ err' = r.err
    /\ op' = "span_set"
    /\ arg' = [index |-> index, value |-> v]
    /\ out' = <<>>
    /\ calls' = calls + 1
    /\ UNCHANGED <<chunk_map, trailing_data, added>>
    /\ UNCHANGED entries

NextAccess ==
    \/ \E in \in AccessInputs : Parse(in)
    \/ Load
    \/ \E index \in AccessIndexes : ScanlineAt(index)
    \/ \E index \in AccessIndexes : GetSpan(index)
    \/ \E index \in AccessIndexes : SetSpan(index)
    \/ \E index \in AccessIndexes : GetPixel(index)
    \/ \E index \in AccessIndexes, v \in {1, 5} : SetPixel(v, index)
    \/ \E index \in AccessIndexes : SpanGet(index)
    \/ \E index \in AccessIndexes, v \in {1, 5} : SpanSet(v, index)

SpecAccess == Init /\ [][NextAccess]_vars

\* the count the index of an accessor call is checked against, on the
\* image the call was made on
accessor_count(name, img) ==
    LET line == value(img)[1]
    IN  CASE name = "scanline" -> Len(value(img))
          [] name \in {"get_span", "set_span"} -> Len(line.pixel_data)
          [] name \in {"get_pixel", "set_pixel"} ->
                 Len(line.pixel_data) * SpanSamples(line.kind)
          [] name \in {"span_get", "span_set"} -> SpanSamples(line.kind)

AccessorNames ==
    {"scanline", "get_span", "set_span", "get_pixel", "set_pixel", "span_get", "span_set"}

\* C13: every indexed accessor called on a loaded image with an index that
\* is not below its count fails with OutOfBounds and leaves the scanlines as
\* they were.
C13_IndexAtOrAboveCountRejected ==
    [][(/\ op' \in AccessorNames
        /\ Image_is_loaded(image_data)
        /\ arg'.index >= accessor_count(op', image_data))
           => (err' = "OutOfBounds" /\ image_data' = image_data)]_vars

\* C13 (witness): get_span was called on the first scanline of a loaded
\* image with the index equal to the number of its spans, and did not fail
\* with OutOfBounds
C13_IndexEqualCountAccepted ==
    /\ op = "get_span"
    /\ Image_is_loaded(image_data)
    /\ arg.index = Len(value(image_data)[1].pixel_data)
    /\ err # "OutOfBounds"

(***************************************************************************)
(* Text chunks queried by keyword: Image::add_text, get_text, get_ztext.   *)
(***************************************************************************)
\* ZText::null_terminator
ZText_null_terminator(data) ==
    IF Len(data) = 0 THEN None
    ELSE IF first_zero(data, 0) >= Len(data) \/ first_zero(data, 0) = 0 THEN None
    ELSE Some(first_zero(data, 0))

\* ZText::keyword
ZText_keyword(data) ==
    IF ~has_value(ZText_null_terminator(data)) THEN [err |-> "NoKeyword", str |-> <<>>]
    ELSE [err |-> "ok", str |-> Slice(data, 1, value(ZText_null_terminator(data)))]

RECURSIVE get_ztext_loop(_, _, _, _)
get_ztext_loop(list, keyword, i, result) ==
    IF i > Len(list) THEN [err |-> "ok", texts |-> result]
    ELSE LET k == ZText_keyword(list[i].data)
         IN  IF k.err # "ok" THEN [err |-> k.err, texts |-> <<>>]
             ELSE get_ztext_loop(list, keyword, i + 1,
                                 IF k.str = keyword THEN Append(result, list[i]) ELSE result)

\* Image::get_ztext
Image_get_ztext(cm, keyword) ==
    IF ~map_find(cm, zTXt) THEN [err |-> "out_of_range", texts |-> <<>>]
    ELSE get_ztext_loop(cm[zTXt], keyword, 1, <<>>)

\* three tEXt chunks under the keywords A, BC and A, and one zTXt chunk
\* under the keyword A
TEXT_FILE ==
    file_of(<<MakeHeader(1, 1, 8, 0),
              ChunkVec(tEXt, <<65, 0, 104, 105>>),
              ChunkVec(tEXt, <<66, 67, 0, 120>>),
              ChunkVec(zTXt, <<65, 0, 0>> \o compress(<<104, 105>>)),
              ChunkVec(tEXt, <<65, 0, 121, 111>>),
              ChunkVec(IDAT, compress(<<0, 5>>)),
              ChunkVec(IEND, <<>>)>>, <<>>)

\* one tEXt chunk, no zTXt chunk
TEXT_ONLY_FILE ==
    file_of(<<MakeHeader(1, 1, 8, 0), ChunkVec(tEXt, <<66, 67, 0, 120>>),
              ChunkVec(IDAT, compress(<<0, 5>>)), ChunkVec(IEND, <<>>)>>, <<>>)

\* the keywords passed to add_text, get_text and get_ztext
Keywords == {<<65>>, <<66, 67>>, <<90>>}

\* Image::add_text(keyword, text)
AddText(keyword, text) ==
    /\ calls < MaxCalls
    /\ LET r == Image_add_text(chunk_map, keyword, text)
       IN  chunk_map' = r.chunk_map /\ err' = r.err
    /\ op' = "add_text"
    /\ arg' = [keyword |-> keyword, text |-> text]
    /\ out' = <<>>
    /\ calls' = calls + 1
    /\ UNCHANGED <<trailing_data, image_data, added>>
    /\ UNCHANGED entries

\* Image::get_text(keyword)
GetText(keyword) ==
    /\ calls < MaxCalls
    /\ LET r == Image_get_text(chunk_map, keyword)
       IN  out' = r.texts /\ err' = r.err
    /\ op' = "get_text"
    /\ arg' = keyword
    /\ calls' = calls + 1
    /\ UNCHANGED <<chunk_map, trailing_data, image_data, added>>
    /\ UNCHANGED entries

\* Image::get_ztext(keyword)
GetZText(keyword) ==
    /\ calls < MaxCalls
    /\ LET r == Image_get_ztext(chunk_map, keyword)
       IN  out' = r.texts /\ err' = r.err
    /\ op' = "get_ztext"
    /\ arg' = keyword
    /\ calls' = calls + 1
    /\ UNCHANGED <<chunk_map, trailing_data, image_data, added>>
    /\ UNCHANGED entries

NextText ==
    \/ \E d \in {RGB_2x2, TEXT_FILE, TEXT_ONLY_FILE} : Parse([data |-> d, validate |-> TRUE])
    \/ \E keyword \in Keywords : AddText(keyword, prefix(<<104, 105, 33>>, MaxBytes))
    \/ \E keyword \in Keywords : GetText(keyword)
    \/ \E keyword \in Keywords : GetZText(keyword)

SpecText == Init /\ [][NextText]_vars

\* the chunks of the table under a tag, none when the tag is absent
chunks_of(cm, tag) == IF map_find(cm, tag) THEN cm[tag] ELSE <<>>

\* the bytes of a chunk's data before its first zero byte
keyword_bytes(c) == Slice(c.data, 1, first_zero(c.data, 0))

\* C14: get_text(k) returns the tEXt chunks whose keyword is k, in insertion
\* order, and an empty list without an error when there is none, whether or
\* not the image holds a tEXt chunk; get_ztext does the same for zTXt.
C14_GetTextByKeyword ==
    /\ op = "get_text" =>
           /\ err = "ok"
           /\ out = SelectSeq(chunks_of(chunk_map, tEXt), LAMBDA c : keyword_bytes(c) = arg)
    /\ op = "get_ztext" =>
           /\ err = "ok"
           /\ out = SelectSeq(chunks_of(chunk_map, zTXt), LAMBDA c : keyword_bytes(c) = arg)

\* C14 (witness): get_text was asked of an image that holds chunks but no
\* tEXt chunk, and raised std::out_of_range
C14_NoTextChunkRaises ==
    /\ op = "get_text"
    /\ chunk_map # EmptyMap
    /\ ~Image_has_text(chunk_map)
    /\ err = "out_of_range"

(***************************************************************************)
(* Reading the trailing data back: Image::get_trailing_data.               *)
(***************************************************************************)
\* Image::get_trailing_data: *this->trailing_data, without a test of
\* has_value().  On an empty optional the behaviour is undefined: the call
\* hands out whatever the optional's storage holds, or faults.
Image_get_trailing_data(td) ==
    IF has_value(td) THEN {[err |-> "ok", data |-> value(td)]}
    ELSE {[err |-> "SIGSEGV", data |-> <<>>]}
         \cup {[err |-> "ok", data |-> d] : d \in {<<>>} \cup {<<b>> : b \in UndefinedBytes}}

\* Image::get_trailing_data()
GetTrailingData ==
    /\ calls < MaxCalls
    /\ \E r \in Image_get_trailing_data(trailing_data) : out' = r.data /\ err' = r.err
    /\ op' = "get_trailing_data"
    /\ arg' = <<>>
    /\ calls' = calls + 1
    /\ UNCHANGED <<chunk_map, trailing_data, image_data, added>>
    /\ UNCHANGED entries

NextTrailing ==
    \/ \E d \in {RGB_2x2, GRAY1_3x2, WITH_EXTRAS, TWO_PRIVATE, NO_HEADER} :
          Parse([data |-> d, validate |-> TRUE])
    \/ \E t \in TrailingInputs : SetTrailingData(t)
    \/ ClearTrailingData
    \/ GetTrailingData

SpecTrailing == Init /\ [][NextTrailing]_vars

\* C15: get_trailing_data on an image without trailing data (never set,
\* cleared, or parsed from an input that ends with IEND) fails with
\* NoTrailingData.
C15_NoTrailingDataRaised ==
    (op = "get_trailing_data" /\ ~has_value(trailing_data)) => err = "NoTrailingData"

\* C15 (witness): the image holds no trailing data, and get_trailing_data
\* returned without an error
C15_ClearedDataReturned ==
    /\ op = "get_trailing_data"
    /\ ~has_value(trailing_data)
    /\ calls = MaxCalls
    /\ err = "ok"

(***************************************************************************)
(* The lifecycle of the scanline vector: every operation that needs it,    *)
(* called before and after decompress / load.                              *)
(***************************************************************************)
\* the files parsed: a plain image, one whose second scanline has filter
\* type 5, one without IHDR, and one without IDAT data that inflates
GateInputs ==
    {[data |-> d, validate |-> TRUE] : d \in {RGB_2x2, RGB_5x3, BAD_FILTER, NO_HEADER}}

NextGate ==
    \/ \E in \in GateInputs : Parse(in)
    \/ Decompress
    \/ Reconstruct
    \/ Load
    \/ Filter
    \/ \E chunk_size \in ChunkSizes : Compress(chunk_size)
    \/ \E index \in {0, 2} : ScanlineAt(index)
    \/ \E data \in {<<>>, <<33>>} : WriteStegoData(data, 0)
    \/ ReadStegoData(0, 1)
    \/ HasStegoPayload
    \/ ExtractStegoPayload

SpecGate == Init /\ [][NextGate]_vars

\* the operations that need the scanline vector
GatedOps ==
    {"scanline", "reconstruct", "filter", "compress", "read_stego_data",
     "write_stego_data", "has_stego_payload", "extract_stego_payload"}

\* one call, seen from the state before it to the state after it
GatedStep ==
    /\ (~Image_is_loaded(image_data) /\ op' \in GatedOps)
           => /\ err' = "NoImageData"
              /\ UNCHANGED <<chunk_map, trailing_data, image_data>>
    /\ (~Image_is_loaded(image_data) /\ Image_is_loaded(image_data'))
           => /\ op' \in {"decompress", "load"}
              /\ Image_decompress(chunk_map, image_data).err = "ok"
    /\ (op' \in {"decompress", "load"} /\ err' = "ok") => Image_is_loaded(image_data')
    /\ Image_is_loaded(image_data) => Image_is_loaded(image_data')

\* C16: while the scanline vector is absent, scanline(i), reconstruct,
\* filter, compress, read_stego_data, write_stego_data, has_stego_payload
\* and extract_stego_payload each fail with NoImageData and leave the chunk
\* table, the trailing data and the (absent) scanlines as they were;
\* is_loaded() turns true only in a decompress that succeeded (called
\* directly or as the first step of load), is true after every successful
\* decompress or load, and once true stays true.
C16_LifecycleGating == [][GatedStep]_vars

\* C16 (witness): a parsed image with IDAT data, never decompressed, was
\* asked for its stego payload and refused with NoImageData
C16_GatedBeforeLoad ==
    /\ op = "extract_stego_payload"
    /\ ~Image_is_loaded(image_data)
    /\ Image_has_image_data(chunk_map)
    /\ err = "NoImageData"

(***************************************************************************)
(* One chunk, emitted by ChunkVec::to_chunk_ptr and read back by           *)
(* ChunkPtr::parse.                                                        *)
(***************************************************************************)
\* a payload of 300 bytes, whose length needs two bytes
LongPayload == [i \in 1..300 |-> (i * 7) % 256]

\* the tags drawn: three standard ones, a private one, and one with the
\* bytes 0 and 255
ChunkTags == {IHDR, IDAT, tEXt, <<118, 112, 65, 103>>, <<0, 255, 1, 128>>}

\* the payloads drawn: every prefix of two byte strings, and the long one
ChunkPayloads ==
    {prefix(<<0, 255, 10, 73, 69, 78>>, n) : n \in 0..MaxBytes}
    \cup {prefix(<<137, 80, 78, 71, 13, 26>>, n) : n \in 0..MaxBytes}
    \cup {LongPayload}

\* ChunkVec(tag, data).to_chunk_ptr(): the emitted bytes are kept in out
EmitChunk(tag, data) ==
    /\ calls < MaxCalls
    /\ out' = ChunkVec_to_chunk_ptr(ChunkVec(tag, data))
    /\ op' = "to_chunk_ptr"
    /\ arg' = [chunk |-> ChunkVec(tag, data), bytes |-> <<>>]
    /\ err' = "ok"
    /\ calls' = calls + 1
    /\ UNCHANGED <<chunk_map, trailing_data, image_data, added>>
    /\ UNCHANGED entries

\* ChunkPtr::parse(bytes, 0) of the bytes just emitted
ParseChunk ==
    /\ calls < MaxCalls
    /\ op = "to_chunk_ptr"
    /\ LET p == ChunkPtr_parse(out, 0)
       IN  out' = p /\ err' = p.err
    /\ op' = "parse_chunk"
    /\ arg' = [arg EXCEPT !.bytes = out]
    /\ calls' = calls + 1
    /\ UNCHANGED <<chunk_map, trailing_data, image_data, added>>
    /\ UNCHANGED entries

NextChunk ==
    \/ \E tag \in ChunkTags, data \in ChunkPayloads : EmitChunk(tag, data)
    \/ ParseChunk

SpecChunk == Init /\ [][NextChunk]_vars

\* C17: the bytes emitted for a chunk parse to a chunk of the same tag and
\* payload, whose stored CRC is the CRC-32 of tag followed by payload, which
\* validates, and whose chunk_size is the number of bytes emitted.
C17_ChunkRoundTrip ==
    op = "parse_chunk" =>
        /\ err = "ok"
        /\ ChunkPtr_to_chunk_vec(out) = arg.chunk
        /\ out.length = Len(arg.chunk.data)
        /\ out.crc = crc32(arg.chunk.tag \o arg.chunk.data, <<0, 0, 0, 0>>)
        /\ ChunkPtr_validate(out)
        /\ ChunkPtr_chunk_size(out) = Len(arg.bytes)

\* C17 (witness): a chunk with an empty payload was emitted as twelve bytes
\* and read back
C17_EmptyChunkReadBack ==
    /\ op = "parse_chunk"
    /\ arg.chunk.data = <<>>
    /\ Len(arg.bytes) = 12
    /\ err = "ok"

(***************************************************************************)
(* base64_encode followed by base64_decode and is_base64_string.           *)
(***************************************************************************)
\* the byte strings encoded: every byte value alone, in a pair and in a
\* triple, and every prefix of a longer string
Base64Inputs ==
    {<<b>> : b \in 0..255}
    \cup {<<b, 255 - b>> : b \in 0..255}
    \cup {<<255 - b, 7, b>> : b \in 0..255}
    \cup {prefix(<<0, 255, 16, 131, 250, 63, 62>>, n) : n \in 0..(MaxBytes + 3)}

\* base64_encode(x)
Base64Encode(x) ==
    /\ calls < MaxCalls
    /\ out' = base64_encode(x)
    /\ op' = "base64_encode"
    /\ arg' = [data |-> x, encoded |-> <<>>]
    /\ err' = "ok"
    /\ calls' = calls + 1
    /\ UNCHANGED <<chunk_map, trailing_data, image_data, added>>
    /\ UNCHANGED entries

\* base64_decode of the string just encoded
Base64Decode ==
    /\ calls < MaxCalls
    /\ op = "base64_encode"
    /\ LET r == base64_decode(out)
       IN  out' = r.data /\ err' = r.err
    /\ op' = "base64_decode"
    /\ arg' = [arg EXCEPT !.encoded = out]
    /\ calls' = calls + 1
    /\ UNCHANGED <<chunk_map, trailing_data, image_data, added>>
    /\ UNCHANGED entries

\* is_base64_string of the string just encoded
IsBase64String ==
    /\ calls < MaxCalls
    /\ op = "base64_encode"
    /\ out' = is_base64_string(out)
    /\ op' = "is_base64_string"
    /\ arg' = [arg EXCEPT !.encoded = out]
    /\ err' = "ok"
    /\ calls' = calls + 1
    /\ UNCHANGED <<chunk_map, trailing_data, image_data, added>>
    /\ UNCHANGED entries

NextBase64 ==
    \/ \E x \in Base64Inputs : Base64Encode(x)
    \/ Base64Decode
    \/ IsBase64String

SpecBase64 == Init /\ [][NextBase64]_vars

\* C18: decoding the encoding of a byte string gives the byte string back,
\* whatever its length and bytes, and the encoding passes is_base64_string.
C18_Base64RoundTrip ==
    /\ op = "base64_decode" => (err = "ok" /\ out = arg.data)
    /\ op = "is_base64_string" => out = TRUE

\* C18 (witness): a string of four bytes (one left over after the first
\* three) that holds 0 and 255 was encoded with two pad characters and
\* decoded
C18_PaddedStringDecoded ==
    /\ op = "base64_decode"
    /\ Len(arg.data) = 4
    /\ Len(arg.encoded) = 8
    /\ arg.encoded[8] = PadChar
    /\ arg.encoded[7] = PadChar
    /\ out = arg.data

(***************************************************************************)
(* A span of samples narrower than a byte, written and read one sample at  *)
(* a time: set and get of the first span of the first scanline of a        *)
(* loaded image of one row.                                                *)
(***************************************************************************)
\* the bit depths below 8, with colour type 0 (grayscale) and, for 4 bits,
\* also colour type 3 (palette)
SubByteFormats == {<<1, 0>>, <<2, 0>>, <<4, 0>>, <<4, 3>>}

\* the byte the span holds when the calls start
SpanBytes == {0, 165}

\* one row of 8 / depth pixels, unfiltered, that is the single byte b
span_file(format, b) ==
    png_of(MakeHeader(8 \div format[1], 1, format[1], format[2]), <<0, b>>)

\* the image parsed and loaded from span_file(format, b)
InitSpan ==
    \E format \in SubByteFormats, b \in SpanBytes :
        LET p == Image_parse(EmptyMap, None, span_file(format, b), TRUE)
            l == Image_load(p.chunk_map, None)
        IN  /\ chunk_map = p.chunk_map
            /\ trailing_data = p.trailing_data
            /\ image_data = l.image_data
            /\ op = "load"
            /\ arg = <<>>
            /\ err = l.err
            /\ out = <<>>
            /\ added = <<>>
            /\ calls = 0
            /\ entries = <<>>

\* the values written: some that fit 1, 2 and 4 bits, and 16, which fits none
SpanValues == {0, 1, 2, 3, 9, 15, 16}

\* the sample indexes passed
SpanIndexes == {0, 1, 2, 3, 7}

NextSpan ==
    \/ \E index \in SpanIndexes, v \in SpanValues : SpanSet(v, index)
    \/ \E index \in SpanIndexes : SpanGet(index)

SpecSpan == InitSpan /\ [][NextSpan]_vars

\* the kind, and the byte, of the first span of the first scanline
span_kind(img) == value(img)[1].kind
span_byte(img) == value(img)[1].pixel_data[1][1]

\* sample i of a byte holding 8 / M samples of M bits, sample 0 highest
sample_of(byte, M, i) == (byte \div Pow2(((8 \div M) - 1 - i) * M)) % Pow2(M)

\* one call of set or get, from the state before to the state after
SpanStep ==
    LET M == PixelBits[span_kind(image_data)]
        N == 8 \div M
        i == arg'.index
    IN  /\ (op' = "span_set" /\ arg'.value > Pow2(M) - 1)
               => (err' = "IntegerOverflow" /\ image_data' = image_data)
        /\ (op' = "span_set" /\ arg'.value <= Pow2(M) - 1 /\ i < N)
               => /\ err' = "ok"
                  /\ sample_of(span_byte(image_data'), M, i) = arg'.value
                  /\ \A j \in 0..(N - 1) :
                         j # i => sample_of(span_byte(image_data'), M, j)
                                      = sample_of(span_byte(image_data), M, j)
                  /\ PixelSpan_get(span_kind(image_data), <<span_byte(image_data')>>, i)
                         = {[err |-> "ok",
                             pixel |-> PixelOf(span_kind(image_data), <<arg'.value>>)]}
        /\ (op' = "span_get" /\ i < N)
               => /\ err' = "ok"
                  /\ out' = PixelOf(span_kind(image_data),
                                    <<sample_of(span_byte(image_data), M, i)>>)
                  /\ image_data' = image_data

\* C19: in a span of N = 8 / M samples of M = 1, 2 or 4 bits, set(value, i)
\* with i < N and value <= 2^M - 1 stores value as sample i, counted from the
\* highest-order bits, and leaves every other sample as it was; get(i) returns
\* sample i, (byte >> ((N - 1 - i) * M)) & (2^M - 1), which is therefore the
\* value last written at i; a value above 2^M - 1 is rejected with
\* IntegerOverflow and writes nothing.
C19_SubByteSpanSetGet == [][SpanStep]_vars

\* C19 (witness): after two writes to a span of 2-bit samples, get(1)
\* returned the value 2 that the second write left in bits 5..4
C19_LastWriteRead ==
    /\ op = "span_get"
    /\ calls = MaxCalls
    /\ PixelBits[span_kind(image_data)] = 2
    /\ arg.index = 1
    /\ err = "ok"
    /\ out.data = <<2>>
    /\ (span_byte(image_data) \div 16) % 4 = 2
    /\ span_byte(image_data) \notin SpanBytes

(***************************************************************************)
(* Image::decompress: the IDAT payloads inflated and cut into scanlines.   *)
(***************************************************************************)
\* 5x2 2-bit grayscale: two bytes a row, the last six bits of each unused
GRAY2_5x2 == png_of(MakeHeader(5, 2, 2, 0), <<0, 27, 64, 2, 228, 192>>)

\* RGB_2x2 with one byte less, and with one byte more, than its header asks
SHORT_ROWS == png_of(MakeHeader(2, 2, 8, 2),
                     <<1, 10, 20, 30, 5, 6, 7, 4, 1, 2, 3, 250, 251>>)
LONG_ROWS == png_of(MakeHeader(2, 2, 8, 2),
                    <<1, 10, 20, 30, 5, 6, 7, 4, 1, 2, 3, 250, 251, 252, 9>>)

\* 8-bit grayscale of width 2^31 - 1 and height 2^30, whose rows take
\* 2^30 * 2^31 = 2^61 bytes; the image data inflates to nothing
WRAPPED_GRAY == png_of(MakeHeader(2147483647, 1073741824, 8, 0), <<>>)

DecompressInputs ==
    {[data |-> d, validate |-> TRUE] :
        d \in {RGB_2x2, GRAY1_3x2, GRAYA16_1x2, GRAY2_5x2, ZERO_WIDTH, ZERO_HEIGHT,
               WITH_EXTRAS, SHORT_ROWS, LONG_ROWS, WRAPPED_GRAY, NO_HEADER}}

NextInflate ==
    \/ \E in \in DecompressInputs : Parse(in)
    \/ Decompress

SpecInflate == Init /\ [][NextInflate]_vars

\* equality of two unsigned integers of any width
BigEq(a, b) == ~BigLess(a, b) /\ ~BigLess(b, a)

\* the samples of a pixel, by colour type
channels_of(color_type) ==
    CASE color_type = 0 -> 1 [] color_type = 2 -> 3 [] color_type = 3 -> 1
      [] color_type = 4 -> 2 [] color_type = 6 -> 4

bits_per_pixel(h) == Header_bit_depth(h) * channels_of(Header_color_type(h))

\* ceil(width * bits_per_pixel / 8), over the integers
stride_of(h) == BigDiv8(BigAdd(BigMul(le32(Header_width(h)), BigOfInt(bits_per_pixel(h))), <<7>>))

\* height * (1 + stride), over the integers
rows_size(h) == BigMul(le32(Header_height(h)), BigAdd(stride_of(h), <<1>>))

\* the inflated concatenation of the IDAT payloads, in chunk order
inflated_idat(cm) == decompress(Concat([i \in 1..Len(cm[IDAT]) |-> cm[IDAT][i].data]))

\* the scanlines are height rows cut from raw at multiples of 1 + stride
rows_cut_from(lines, h, raw) ==
    LET width == u32_int(Header_width(h))
        stride == BigToInt(stride_of(h))
        per_span == IF bits_per_pixel(h) < 8 THEN 8 \div bits_per_pixel(h) ELSE 1
    IN  /\ Len(lines) = u32_int(Header_height(h))
        /\ \A y \in 0..(Len(lines) - 1) :
               /\ lines[y + 1].filter_type = raw[(y * (1 + stride)) + 1]
               /\ Concat(lines[y + 1].pixel_data)
                      = Slice(raw, (y * (1 + stride)) + 2, (y + 1) * (1 + stride))
               /\ Len(lines[y + 1].pixel_data) = (width + per_span - 1) \div per_span

raw_rows(img) ==
    Concat([y \in 1..Len(value(img)) |->
               <<value(img)[y].filter_type>> \o Concat(value(img)[y].pixel_data)])

\* the chunk table without its IDAT entry
without_idat(cm) == [t \in (DOMAIN cm) \ {IDAT} |-> cm[t]]

\* the smaller of two numbers
Min(a, b) == IF a < b THEN a ELSE b

\* one successful call of compress, from the state before to the state after
CompressStep ==
    (op' = "compress" /\ err' = "ok")
    => LET stream == compress(raw_rows(image_data))
           L == Len(stream)
           idat == chunk_map'[IDAT]
       IN  /\ map_find(chunk_map', IDAT)
           /\ \A k \in 1..Len(idat) : idat[k].tag = IDAT
           /\ Concat([k \in 1..Len(idat) |-> idat[k].data]) = stream
           /\ IF has_value(arg')
              THEN LET c == value(arg')
                   IN  /\ Len(idat) = (L + c - 1) \div c
                       /\ \A k \in 1..Len(idat) :
                              idat[k].data = Slice(stream, ((k - 1) * c) + 1, Min(k * c, L))
                       /\ \A k \in 1..(Len(idat) - 1) : Len(idat[k].data) = c
                       /\ \A k \in 1..Len(idat) : Len(idat[k].data) <= c
              ELSE Len(idat) = 1
           /\ without_idat(chunk_map') = without_idat(chunk_map)
           /\ trailing_data' = trailing_data
           /\ image_data' = image_data

\* C21: compress with a byte budget c >= 1 replaces the IDAT chunks by
\* ceil(L / c) chunks, each of at most c bytes and all but the last of c
\* bytes, whose concatenation is the deflated stream (L bytes) of the
\* scanlines' raw bytes; without a budget one chunk holds the stream; the
\* other chunks, the trailing data and the scanlines are unchanged.
C21_CompressSplitsStream == [][CompressStep]_vars

\* C21 (witness): an image parsed with two IDAT chunks and other chunks was
\* loaded and compressed with a budget of 7 bytes into more than two chunks,
\* the last one shorter than 7
C21_StreamSplitInChunks ==
    /\ op = "compress"
    /\ err = "ok"
    /\ arg = Some(7)
    /\ Len(chunk_map[IDAT]) > 2
    /\ Len(chunk_map[IDAT][Len(chunk_map[IDAT])].data) < 7
    /\ map_find(chunk_map, PLTE)

(***************************************************************************)
(* ico::Icon (ico.cpp).  An IconDirEntry is its 16 bytes in memory order;  *)
(* the 16- and 32-bit fields are read as the little-endian host reads      *)
(* them.  An entry of the icon is the pair of the directory entry and the  *)
(* payload bytes.                                                          *)
(***************************************************************************)
\* sizeof(IconDirEntry), and sizeof(IconDir) - sizeof(IconDirEntry)
IconDirEntrySize == 16
IconDirHeadSize == 6

\* std::make_pair(entry, data)
Entry(first, second) == [first |-> first, second |-> second]

\* IconDirEntry::bytes and IconDirEntry::offset, as std::uint32_t
entry_bytes(e) == Slice(e, 9, 12)
entry_offset(e) == Slice(e, 13, 16)

\* an IconDirEntry with the given head (width .. bit_count) and fields
IconDirEntry(head, bytes, offset) == head \o Pad(bytes, 4) \o Pad(offset, 4)

\* the std::vector<uint8_t>(data, data_end) of Icon::parse: n bytes from
\* offset off of the buffer.  A range that leaves the buffer is read from
\* memory the buffer does not own: the read faults, or copies what is there.
entry_payload(buf, off, n) ==
    IF ~BigLess(size_t(Len(buf)), BigAdd(off, n))
    THEN {[err |-> "ok", data |-> Slice(buf, BigToInt(off) + 1, BigToInt(off) + BigToInt(n))]}
    ELSE {[err |-> "SIGSEGV", data |-> <<>>]}
         \cup {[err |-> "ok", data |-> [j \in 1..BigToInt(n) |-> b]] : b \in UndefinedBytes}

\* the loop of Icon::parse over the directory entries i .. count - 1
RECURSIVE icon_entries(_, _, _, _)
icon_entries(buf, count, i, acc) ==
    IF i >= count THEN {[err |-> "ok", entries |-> acc]}
    ELSE LET entry == Slice(buf, IconDirHeadSize + (IconDirEntrySize * i) + 1,
                            IconDirHeadSize + (IconDirEntrySize * (i + 1)))
             \* entry.offset + entry.bytes, in std::uint32_t
             sum == Trunc(BigAdd(entry_offset(entry), entry_bytes(entry)), 4)
         IN  IF BigLess(size_t(Len(buf)), sum)
             THEN {[err |-> "OutOfBounds", entries |-> <<>>]}
             ELSE UNION {IF d.err # "ok" THEN {[err |-> d.err, entries |-> <<>>]}
                         ELSE icon_entries(buf, count, i + 1,
                                           Append(acc, Entry(entry, d.data))) :
                         d \in entry_payload(buf, entry_offset(entry), entry_bytes(entry))}

\* Icon::parse: the outcomes of the call on an icon holding old
Icon_parse(old, buf) ==
    LET size == Len(buf)
        keep(e) == {[err |-> e, entries |-> old]}
    IN  IF size < IconDirHeadSize + IconDirEntrySize THEN keep("InsufficientSize")
        ELSE IF Slice(buf, 1, 2) # <<0, 0>> \/ Slice(buf, 3, 4) # <<1, 0>>
        THEN keep("InvalidIconHeader")
        ELSE LET count == buf[5] + (256 * buf[6])
             IN  IF IconDirHeadSize + (IconDirEntrySize * count) > size
                 THEN keep("OutOfBounds")
                 ELSE {IF r.err = "ok" THEN r ELSE [err |-> r.err, entries |-> old] :
                          r \in icon_entries(buf, count, 0, <<>>)}

\* Icon::entry_type of an entry
Icon_entry_type(e) ==
    IF Len(e.second) >= 8 /\ Slice(e.second, 1, 8) = Signature
    THEN "ENTRY_PNG" ELSE "ENTRY_BMP"

\* the loop of Icon::to_file with the offsets of the entries left as they
\* were: only bytes is overwritten
RECURSIVE icon_to_file_loop_stale_offset(_, _, _, _)
icon_to_file_loop_stale_offset(list, count, i, buffer) ==
    IF i >= count THEN buffer
    ELSE LET slot == IconDirHeadSize + (IconDirEntrySize * i)
             dirent == IconDirEntry(Slice(list[i + 1].first, 1, 8),
                                    Trunc(BigOfInt(Len(list[i + 1].second)), 4),
                                    entry_offset(list[i + 1].first))
         IN  icon_to_file_loop_stale_offset(list, count, i + 1,
                 Slice(buffer, 1, slot) \o dirent
                 \o Slice(buffer, slot + IconDirEntrySize + 1, Len(buffer))
                 \o list[i + 1].second)

\* the loop of Icon::to_file: each directory slot is filled from the entry,
\* its bytes and offset overwritten, and the payload appended to the buffer
RECURSIVE icon_to_file_loop(_, _, _, _)
icon_to_file_loop(list, count, i, buffer) ==
    IF i >= count THEN buffer
    ELSE LET slot == IconDirHeadSize + (IconDirEntrySize * i)
             dirent == IconDirEntry(Slice(list[i + 1].first, 1, 8),
                                    Trunc(BigOfInt(Len(list[i + 1].second)), 4),
                                    Trunc(BigOfInt(Len(buffer)), 4))
         IN  icon_to_file_loop(list, count, i + 1,
                 Slice(buffer, 1, slot) \o dirent
                 \o Slice(buffer, slot + IconDirEntrySize + 1, Len(buffer))
                 \o list[i + 1].second)

\* Icon::to_file
Icon_to_file(list) ==
    IF Len(list) = 0 THEN [err |-> "NoIconData", data |-> <<>>]
    ELSE LET count == Len(list) % 65536
             head == <<0, 0, 1, 0, count % 256, count \div 256>>
         IN  [err |-> "ok",
              data |-> icon_to_file_loop(list, count, 0,
                           head \o [j \in 1..(IconDirEntrySize * Len(list)) |-> 0])]

(***************************************************************************)
(* Calls on one Icon object: parse, append_entry, to_file, and parse of    *)
(* the bytes to_file returned.                                             *)
(***************************************************************************)
\* number of entries appended to one icon
MaxEntries == 2
\* number of operations applied to one icon object
MaxIconCalls == MaxCalls + 1

\* the first eight bytes of a directory entry: width, height, color_count,
\* reserved, planes, bit_count
IconHeads == {<<16, 16, 0, 0, 1, 0, 32, 0>>, <<32, 48, 2, 0, 0, 0, 8, 0>>}

\* payloads: none, three bytes, and one that starts with the PNG signature
IconPayloads == {<<>>, <<40, 0, 7>>, Signature \o <<9>>}

\* an icon file: the directory of the given entries, then the given bytes
ico_of(type, dirents, rest) ==
    <<0, 0, type, 0, Len(dirents) % 256, Len(dirents) \div 256>> \o Concat(dirents) \o rest

IconHead == <<16, 16, 0, 0, 1, 0, 32, 0>>

\* one entry of three bytes at offset 22
ICO_ONE == ico_of(1, <<IconDirEntry(IconHead, <<3>>, <<22>>)>>, <<40, 0, 7>>)

\* two entries over the same bytes, the second ending at the end of the file
ICO_SHARED ==
    ico_of(1, <<IconDirEntry(IconHead, <<2>>, <<38>>), IconDirEntry(IconHead, <<3>>, <<38>>)>>,
           <<1, 2, 3>>)

\* an entry of four bytes at offset 22 of a file of 25 bytes
ICO_BEYOND == ico_of(1, <<IconDirEntry(IconHead, <<4>>, <<22>>)>>, <<40, 0, 7>>)

\* a good entry, then one of 16 bytes at offset 2^32 - 8: the 32-bit sum is 8
ICO_WRAPPED ==
    ico_of(1, <<IconDirEntry(IconHead, <<3>>, <<38>>),
                IconDirEntry(IconHead, <<16>>, <<248, 255, 255, 255>>)>>, <<40, 0, 7>>)

\* type 2 (a cursor), a file of the six header bytes, a directory of two
\* entries cut after the first, and a directory of no entry
ICO_CURSOR == ico_of(2, <<IconDirEntry(IconHead, <<3>>, <<22>>)>>, <<40, 0, 7>>)
ICO_SHORT == <<0, 0, 1, 0, 0, 0>>
ICO_DIR_CUT == <<0, 0, 1, 0, 2, 0>> \o IconDirEntry(IconHead, <<0>>, <<22>>) \o <<1, 2, 3>>
ICO_NO_ENTRY == <<0, 0, 1, 0, 0, 0>> \o [j \in 1..IconDirEntrySize |-> 0]

IconInputs ==
    {ICO_ONE, ICO_SHARED, ICO_BEYOND, ICO_WRAPPED, ICO_CURSOR, ICO_SHORT, ICO_DIR_CUT,
     ICO_NO_ENTRY}

\* Icon::Icon()
InitIcon ==
    /\ chunk_map = EmptyMap
    /\ trailing_data = None
    /\ image_data = None
    /\ entries = <<>>
    /\ op = "new"
    /\ arg = <<>>
    /\ err = "ok"
    /\ out = <<>>
    /\ added = <<>>
    /\ calls = 0

\* Icon::parse(vec)
IconParse(buf) ==
    /\ calls < MaxIconCalls
    /\ \E r \in Icon_parse(entries, buf) : entries' = r.entries /\ err' = r.err
    /\ op' = "icon_parse"
    /\ arg' = buf
    /\ out' = <<>>
    /\ calls' = calls + 1
    /\ UNCHANGED <<chunk_map, trailing_data, image_data, added>>

\* Icon::append_entry(entry, data): insert_entry at index size()
AppendEntry(entry, data) ==
    /\ calls < MaxIconCalls
    /\ Len(entries) < MaxEntries
    /\ entries' = Append(entries, Entry(entry, data))
    /\ op' = "append_entry"
    /\ arg' = Entry(entry, data)
    /\ err' = "ok"
    /\ out' = <<>>
    /\ calls' = calls + 1
    /\ UNCHANGED <<chunk_map, trailing_data, image_data, added>>

\* Icon::to_file()
IconToFile ==
    /\ calls < MaxIconCalls
    /\ LET r == Icon_to_file(entries)
       IN  out' = r.data /\ err' = r.err
    /\ op' = "icon_to_file"
    /\ arg' = <<>>
    /\ calls' = calls + 1
    /\ UNCHANGED <<chunk_map, trailing_data, image_data, entries, added>>

\* Icon::parse of the bytes to_file just returned
IconReparse ==
    /\ calls < MaxIconCalls
    /\ op = "icon_to_file"
    /\ err = "ok"
    /\ \E r \in Icon_parse(entries, out) : entries' = r.entries /\ err' = r.err
    /\ op' = "icon_reparse"
    /\ arg' = out
    /\ out' = <<>>
    /\ calls' = calls + 1
    /\ UNCHANGED <<chunk_map, trailing_data, image_data, added>>

NextIcon ==
    \/ \E buf \in IconInputs : IconParse(buf)
    \/ \E head \in IconHeads, data \in IconPayloads, bytes \in {<<0>>, <<9>>} :
           AppendEntry(IconDirEntry(head, bytes, <<0>>), data)
    \/ IconToFile
    \/ IconReparse

SpecIcon == InitIcon /\ [][NextIcon]_vars

\* the directory entries of an icon file whose directory fits the file
dirents_of(buf) ==
    [i \in 1..(buf[5] + (256 * buf[6])) |->
        Slice(buf, IconDirHeadSize + (IconDirEntrySize * (i - 1)) + 1,
              IconDirHeadSize + (IconDirEntrySize * i))]

\* the file has a header of type 1 and room for its directory
icon_directory_fits(buf) ==
    /\ Len(buf) >= IconDirHeadSize + IconDirEntrySize
    /\ Slice(buf, 1, 4) = <<0, 0, 1, 0>>
    /\ IconDirHeadSize + (IconDirEntrySize * (buf[5] + (256 * buf[6]))) <= Len(buf)

\* offset + bytes <= size, over the integers
entry_inside(e, size) == ~BigLess(BigOfInt(size), BigAdd(entry_offset(e), entry_bytes(e)))

\* one call of parse, from the state before to the state after
IconParseStep ==
    (op' = "icon_parse" /\ icon_directory_fits(arg'))
    => LET dir == dirents_of(arg')
       IN  IF \A i \in 1..Len(dir) : entry_inside(dir[i], Len(arg'))
           THEN /\ err' = "ok"
                /\ Len(entries') = Len(dir)
                /\ \A i \in 1..Len(dir) :
                       /\ entries'[i].first = dir[i]
                       /\ entries'[i].second
                              = Slice(arg', BigToInt(entry_offset(dir[i])) + 1,
                                      BigToInt(entry_offset(dir[i]))
                                      + BigToInt(entry_bytes(dir[i])))
           ELSE err' = "OutOfBounds" /\ entries' = entries

\* C22: Icon::parse accepts an input only if, for every directory entry,
\* offset + bytes <= size as a sum over the integers, so that every stored
\* payload is a slice of the input; otherwise it fails with OutOfBounds and
\* the entries the icon held are unchanged.
C22_EntriesInsideInput == [][IconParseStep]_vars

\* C22 (witness): parse accepted the directory whose second entry lies at
\* offset 2^32 - 8, and stored 16 bytes for it from outside the input
C22_WrappedEntryAccepted ==
    /\ op = "icon_parse"
    /\ arg = ICO_WRAPPED
    /\ err = "ok"
    /\ Len(entries) = 2
    /\ Len(entries[2].second) = 16

\* the sum of the payload lengths of entries 1 .. n
RECURSIVE payload_total(_, _)
payload_total(list, n) == IF n = 0 THEN 0 ELSE payload_total(list, n - 1) + Len(list[n].second)

\* parse of the bytes to_file returned: the step from the icon that was
\* written to the icon that was read
IconRoundTripStep ==
    op' = "icon_reparse"
    => LET n == Len(entries)
           dir_end == IconDirHeadSize + (IconDirEntrySize * n)
           start(i) == dir_end + payload_total(entries, i - 1)
       IN  /\ err' = "ok"
           /\ Len(entries') = n
           /\ Len(arg') = dir_end + payload_total(entries, n)
           /\ \A i \in 1..n :
                  /\ entries'[i].second = entries[i].second
                  /\ Slice(entries'[i].first, 1, 8) = Slice(entries[i].first, 1, 8)
                  /\ BigToInt(entry_bytes(entries'[i].first)) = Len(entries[i].second)
                  /\ BigToInt(entry_offset(entries'[i].first)) = start(i)
                  /\ Slice(arg', start(i) + 1, start(i) + Len(entries[i].second))
                         = entries[i].second
                  /\ Icon_entry_type(entries'[i]) = Icon_entry_type(entries[i])

\* C23: parse of to_file of an icon of at least one entry succeeds and gives
\* the same number of entries in the same order, each with the same payload
\* and the same directory fields apart from bytes (the payload length) and
\* offset; in the file the payloads follow the directory one after another
\* in entry order, each offset is the start of its own payload, and the
\* entry_type of every entry is kept.
C23_IconRoundTrip == [][IconRoundTripStep]_vars

\* C23 (witness): an icon of two entries, a PNG payload and a payload of
\* three bytes, appended with a bytes field of 9, was written and read back
C23_TwoEntriesReadBack ==
    /\ op = "icon_reparse"
    /\ err = "ok"
    /\ Len(entries) = 2
    /\ Icon_entry_type(entries[1]) = "ENTRY_PNG"
    /\ entries[2].second = <<40, 0, 7>>
    /\ BigToInt(entry_offset(entries[2].first)) = 47

(***************************************************************************)
(* Compressed text payloads: ZText::text and the zTXt payload readers      *)
(* (png.cpp, payload.cpp).                                                 *)
(***************************************************************************)
\* ZText::text_offset
ZText_text_offset(data) ==
    IF has_value(ZText_null_terminator(data))
    THEN value(ZText_null_terminator(data)) + 2
    ELSE 1

\* ZText::compression_method
ZText_compression_method(data) ==
    IF ~has_value(ZText_null_terminator(data)) THEN [err |-> "NoKeyword", method |-> 0]
    ELSE IF value(ZText_null_terminator(data)) + 1 = Len(data)
    THEN [err |-> "OutOfBounds", method |-> 0]
    ELSE [err |-> "ok", method |-> data[value(ZText_null_terminator(data)) + 2]]

\* ZText::text: the bytes from text_offset() to the end of the chunk data,
\* inflated
ZText_text(data) ==
    IF ZText_text_offset(data) >= Len(data) \/ Len(data) = 0
    THEN [err |-> "out_of_range", str |-> <<>>]
    ELSE LET decompressed == decompress(Slice(data, ZText_text_offset(data) + 1, Len(data)))
         IN  [err |-> decompressed.err, str |-> decompressed.data]

RECURSIVE ztext_payloads_loop(_, _, _)
ztext_payloads_loop(texts, i, result) ==
    IF i > Len(texts) THEN [err |-> "ok", texts |-> result]
    ELSE LET t == ZText_text(texts[i].data)
         IN  IF t.err # "ok" THEN [err |-> t.err, texts |-> <<>>]
             ELSE IF ~is_base64_string(t.str)
             THEN [err |-> "InvalidBase64String", texts |-> <<>>]
             ELSE ztext_payloads_loop(texts, i + 1, Append(result, texts[i]))

\* PNGPayload::get_ztext_payloads
get_ztext_payloads(cm, keyword) ==
    LET potential_payloads == Image_get_ztext(cm, keyword)
    IN  IF potential_payloads.err # "ok" THEN potential_payloads
        ELSE ztext_payloads_loop(potential_payloads.texts, 1, <<>>)

RECURSIVE extract_ztext_loop(_, _, _)
extract_ztext_loop(payloads, i, result) ==
    IF i > Len(payloads) THEN [err |-> "ok", data |-> result]
    ELSE LET t == ZText_text(payloads[i].data)
             d == base64_decode(t.str)
         IN  IF t.err # "ok" THEN [err |-> t.err, data |-> <<>>]
             ELSE IF d.err # "ok" THEN [err |-> d.err, data |-> <<>>]
             ELSE extract_ztext_loop(payloads, i + 1, Append(result, d.data))

\* PNGPayload::extract_ztext_payloads
extract_ztext_payloads(cm, keyword) ==
    LET payloads == get_ztext_payloads(cm, keyword)
    IN  IF payloads.err # "ok" THEN [err |-> payloads.err, data |-> <<>>]
        ELSE extract_ztext_loop(payloads.texts, 1, <<>>)

\* a file with one zTXt chunk: keyword, NUL, compression method, stream
ztxt_file(keyword, method, stream) ==
    file_of(<<MakeHeader(1, 1, 8, 0),
              ChunkVec(zTXt, keyword \o <<0, method>> \o stream),
              ChunkVec(IDAT, compress(<<0, 5>>)),
              ChunkVec(IEND, <<>>)>>, <<>>)

\* "QQ==", the base64 form of the byte 65
QQ == <<81, 81, 61, 61>>

\* the payload under the keyword A with compression method 0
ZTXT_DEFLATE == ztxt_file(<<65>>, 0, compress(QQ))
\* the same stream under compression method 1
ZTXT_METHOD_1 == ztxt_file(<<65>>, 1, compress(QQ))
\* the same stream under compression method 255 and the keyword BC
ZTXT_METHOD_255 == ztxt_file(<<66, 67>>, 255, compress(QQ))
\* compression method 0 and a stream that is not a zlib stream
ZTXT_BROKEN == ztxt_file(<<65>>, 0, QQ)
\* compression method 0, a stream whose text is not base64
ZTXT_NOT_BASE64 == ztxt_file(<<65>>, 0, compress(<<33>>))

ZTextInputs ==
    {ZTXT_DEFLATE, ZTXT_METHOD_1, ZTXT_METHOD_255, ZTXT_BROKEN, ZTXT_NOT_BASE64,
     TEXT_FILE, TEXT_ONLY_FILE}

\* PNGPayload::get_ztext_payloads(keyword)
GetZTextPayloads(keyword) ==
    /\ calls < MaxCalls
    /\ LET r == get_ztext_payloads(chunk_map, keyword)
       IN  out' = r.texts /\ err' = r.err
    /\ op' = "get_ztext_payloads"
    /\ arg' = keyword
    /\ calls' = calls + 1
    /\ UNCHANGED <<chunk_map, trailing_data, image_data, added>>
    /\ UNCHANGED entries

\* PNGPayload::extract_ztext_payloads(keyword)
ExtractZTextPayloads(keyword) ==
    /\ calls < MaxCalls
    /\ LET r == extract_ztext_payloads(chunk_map, keyword)
       IN  out' = r.data /\ err' = r.err
    /\ op' = "extract_ztext_payloads"
    /\ arg' = keyword
    /\ calls' = calls + 1
    /\ UNCHANGED <<chunk_map, trailing_data, image_data, added>>
    /\ UNCHANGED entries

NextZText ==
    \/ \E d \in ZTextInputs : Parse([data |-> d, validate |-> TRUE])
    \/ \E keyword \in Keywords : GetZTextPayloads(keyword)
    \/ \E keyword \in Keywords : ExtractZTextPayloads(keyword)

SpecZText == Init /\ [][NextZText]_vars

\* the image holds a zTXt chunk under the keyword whose compression-method
\* byte is not 0
has_foreign_method(cm, keyword) ==
    \E i \in 1..Len(chunks_of(cm, zTXt)) :
        LET data == chunks_of(cm, zTXt)[i].data
        IN  /\ ZText_keyword(data).err = "ok"
            /\ ZText_keyword(data).str = keyword
            /\ ZText_compression_method(data).err = "ok"
            /\ ZText_compression_method(data).method # 0

\* C24: reading the payloads under a keyword that holds a zTXt chunk whose
\* compression-method byte is not 0 fails: neither get_ztext_payloads nor
\* extract_ztext_payloads returns after inflating such a chunk.
C24_ForeignMethodRejected ==
    (op \in {"get_ztext_payloads", "extract_ztext_payloads"}
        /\ has_foreign_method(chunk_map, arg))
    => err # "ok"

\* extract_ztext_payloads returned the decoded byte of a chunk whose
\* compression method is 1
C24_ForeignMethodInflated ==
    /\ op = "extract_ztext_payloads"
    /\ has_foreign_method(chunk_map, arg)
    /\ err = "ok"
    /\ out = <<(<<65>>)>>

(***************************************************************************)
(* Adding and removing text chunks (png.cpp).  A chunk object is known by  *)
(* where it lives: `at` is its index in the chunk list being searched, or  *)
(* 0 for an object outside that list (a temporary or a copy).              *)
(***************************************************************************)
\* ZText::set_keyword
ZText_set_keyword(data, keyword, validate) ==
    IF validate /\ Len(keyword) > MaxKeyword THEN [err |-> "KeywordTooLong", data |-> data]
    ELSE LET erased == IF has_value(ZText_null_terminator(data))
                       THEN Slice(data, value(ZText_null_terminator(data)) + 2, Len(data))
                       ELSE data
         IN  [err |-> "ok", data |-> keyword \o <<0>> \o erased]

\* ZText::set_compression_method
ZText_set_compression_method(data, compression_method) ==
    LET zero == ZText_null_terminator(data)
    IN  IF ~has_value(zero) THEN [err |-> "NoKeyword", data |-> data]
        ELSE IF value(zero) + 1 = Len(data)
        THEN [err |-> "ok", data |-> Append(data, compression_method)]
        ELSE [err |-> "ok",
              data |-> [data EXCEPT ![value(zero) + 2] = compression_method]]

\* ZText::has_text
ZText_has_text(data) ==
    LET zero == ZText_null_terminator(data)
    IN  (has_value(zero) /\ Len(data) > value(zero) + 2)
        \/ (~has_value(zero) /\ Len(data) > 0)

\* ZText::set_text
ZText_set_text(data, text) ==
    LET kept == IF ZText_has_text(data) THEN Slice(data, 1, ZText_text_offset(data))
                ELSE data
        ended == IF Len(kept) = 0
                    \/ (has_value(ZText_null_terminator(kept))
                        /\ Len(kept) = Len(ZText_keyword(kept).str) + 1)
                 THEN Append(kept, 0)
                 ELSE kept
    IN  ended \o compress(text)

\* ZText::ZText(keyword, text)
ZText_new(keyword, text) ==
    LET k == ZText_set_keyword(<<>>, keyword, TRUE)
        m == ZText_set_compression_method(k.data, 0)
    IN  IF k.err # "ok" THEN [err |-> k.err, chunk |-> ChunkVec(zTXt, <<>>)]
        ELSE IF m.err # "ok" THEN [err |-> m.err, chunk |-> ChunkVec(zTXt, <<>>)]
        ELSE [err |-> "ok", chunk |-> ChunkVec(zTXt, ZText_set_text(m.data, text))]

\* Image::has_ztext
Image_has_ztext(cm) == map_find(cm, zTXt)

\* Image::add_ztext
Image_add_ztext(cm, keyword, text) ==
    LET t == ZText_new(keyword, text)
    IN  IF t.err # "ok" THEN [err |-> t.err, chunk_map |-> cm]
        ELSE [err |-> "ok", chunk_map |-> map_push_back(cm, zTXt, t.chunk)]

\* operator==(ChunkTag, ChunkTag): left.tag() == right.tag(), the addresses
\* of the two tag arrays
ChunkTag_eq(left, right) == left.at # 0 /\ left.at = right.at

\* operator==(ChunkVec, ChunkVec)
ChunkVec_eq(left, right) == ChunkTag_eq(left, right) /\ left.data = right.data

\* chunk_map[key]: operator[] creates the entry
map_at(m, k) == [t \in (DOMAIN m) \cup {k} |-> IF t \in DOMAIN m THEN m[t] ELSE <<>>]

\* the list without its i-th element
erase(list, i) == Slice(list, 1, i - 1) \o Slice(list, i + 1, Len(list))

RECURSIVE remove_chunk_loop(_, _, _, _)
remove_chunk_loop(cm, key, text, chunk) ==
    IF chunk > Len(cm[key]) THEN [err |-> "TextNotFound", chunk_map |-> cm]
    ELSE IF ChunkVec_eq([at |-> chunk, data |-> cm[key][chunk].data], text)
    THEN [err |-> "ok", chunk_map |-> [cm EXCEPT ![key] = erase(cm[key], chunk)]]
    ELSE remove_chunk_loop(cm, key, text, chunk + 1)

\* Image::remove_text(const Text &)
Image_remove_text(cm, text) == remove_chunk_loop(map_at(cm, tEXt), tEXt, text, 1)

\* Image::remove_text(keyword, text): the Text searched for is a temporary
Image_remove_text_by(cm, keyword, text) ==
    LET t == Text_new(keyword, text)
    IN  IF t.err # "ok" THEN [err |-> t.err, chunk_map |-> cm]
        ELSE Image_remove_text(cm, [at |-> 0, data |-> t.chunk.data])

\* Image::remove_ztext(const ZText &)
Image_remove_ztext(cm, text) == remove_chunk_loop(map_at(cm, zTXt), zTXt, text, 1)

\* Image::remove_ztext(keyword, text)
Image_remove_ztext_by(cm, keyword, text) ==
    LET t == ZText_new(keyword, text)
    IN  IF t.err # "ok" THEN [err |-> t.err, chunk_map |-> cm]
        ELSE Image_remove_ztext(cm, [at |-> 0, data |-> t.chunk.data])

\* Image::add_ztext(keyword, text)
AddZText(keyword, text) ==
    /\ calls < MaxCalls
    /\ LET r == Image_add_ztext(chunk_map, keyword, text)
       IN  chunk_map' = r.chunk_map /\ err' = r.err
    /\ op' = "add_ztext"
    /\ arg' = [keyword |-> keyword, text |-> text]
    /\ out' = <<>>
    /\ calls' = calls + 1
    /\ UNCHANGED <<trailing_data, image_data, added>>
    /\ UNCHANGED entries

\* Image::remove_text(text), text a reference to the i-th tEXt chunk held
RemoveTextAt(i) ==
    /\ calls < MaxCalls
    /\ i \in 1..Len(chunks_of(chunk_map, tEXt))
    /\ LET r == Image_remove_text(chunk_map, [at |-> i, data |-> chunk_map[tEXt][i].data])
       IN  chunk_map' = r.chunk_map /\ err' = r.err
    /\ op' = "remove_text"
    /\ arg' = chunk_map[tEXt][i].data
    /\ out' = <<>>
    /\ calls' = calls + 1
    /\ UNCHANGED <<trailing_data, image_data, added>>
    /\ UNCHANGED entries

\* Image::remove_text(keyword, text)
RemoveText(keyword, text) ==
    /\ calls < MaxCalls
    /\ LET r == Image_remove_text_by(chunk_map, keyword, text)
       IN  chunk_map' = r.chunk_map /\ err' = r.err
    /\ op' = "remove_text"
    /\ arg' = Text_new(keyword, text).chunk.data
    /\ out' = <<>>
    /\ calls' = calls + 1
    /\ UNCHANGED <<trailing_data, image_data, added>>
    /\ UNCHANGED entries

\* Image::remove_ztext(text), text a reference to the i-th zTXt chunk held
RemoveZTextAt(i) ==
    /\ calls < MaxCalls
    /\ i \in 1..Len(chunks_of(chunk_map, zTXt))
    /\ LET r == Image_remove_ztext(chunk_map, [at |-> i, data |-> chunk_map[zTXt][i].data])
       IN  chunk_map' = r.chunk_map /\ err' = r.err
    /\ op' = "remove_ztext"
    /\ arg' = chunk_map[zTXt][i].data
    /\ out' = <<>>
    /\ calls' = calls + 1
    /\ UNCHANGED <<trailing_data, image_data, added>>
    /\ UNCHANGED entries

\* Image::remove_ztext(keyword, text)
RemoveZText(keyword, text) ==
    /\ calls < MaxCalls
    /\ LET r == Image_remove_ztext_by(chunk_map, keyword, text)
       IN  chunk_map' = r.chunk_map /\ err' = r.err
    /\ op' = "remove_ztext"
    /\ arg' = ZText_new(keyword, text).chunk.data
    /\ out' = <<>>
    /\ calls' = calls + 1
    /\ UNCHANGED <<trailing_data, image_data, added>>
    /\ UNCHANGED entries

\* the keywords and texts of the chunks added and removed
RemoveKeywords == {<<65>>, <<66, 67>>}
RemoveTexts == {<<104, 105>>, <<120>>}

NextRemove ==
    \/ \E d \in {RGB_2x2, TEXT_FILE} : Parse([data |-> d, validate |-> TRUE])
    \/ \E keyword \in RemoveKeywords, text \in RemoveTexts : AddText(keyword, text)
    \/ \E keyword \in RemoveKeywords, text \in RemoveTexts : AddZText(keyword, text)
    \/ \E i \in 1..(MaxCalls + 3) : RemoveTextAt(i)
    \/ \E keyword \in RemoveKeywords, text \in RemoveTexts : RemoveText(keyword, text)
    \/ \E i \in 1..(MaxCalls + 1) : RemoveZTextAt(i)
    \/ \E keyword \in RemoveKeywords, text \in RemoveTexts : RemoveZText(keyword, text)

SpecRemove == Init /\ [][NextRemove]_vars

\* C25: has_text() is true iff the image holds at least one tEXt chunk, and
\* has_ztext() iff it holds at least one zTXt chunk, whatever add, remove
\* (succeeding or failing with TextNotFound) and parse calls came before.
C25_HasTextIffChunkHeld ==
    /\ Image_has_text(chunk_map) <=> Len(chunks_of(chunk_map, tEXt)) >= 1
    /\ Image_has_ztext(chunk_map) <=> Len(chunks_of(chunk_map, zTXt)) >= 1

\* remove_text failed with TextNotFound on an image without tEXt chunks, and
\* has_text() is true afterwards
C25_HasTextAfterFailedRemove ==
    /\ op = "remove_text"
    /\ err = "TextNotFound"
    /\ Len(chunks_of(chunk_map, tEXt)) = 0
    /\ Image_has_text(chunk_map)

\* a call of parse, decompress, load, reconstruct, filter or compress that
\* raised an error left the chunk table, the trailing data and the scanline
\* vector as they were
FailedCallStep ==
    (op' \in {"parse", "decompress", "load", "reconstruct", "filter", "compress"}
        /\ err' # "ok")
    => /\ chunk_map' = chunk_map
       /\ trailing_data' = trailing_data
       /\ image_data' = image_data

\* C26: every Image operation completes fully or fails leaving the image as
\* it was: when parse, decompress, load, reconstruct, filter or compress
\* raises an error, the chunk table, the trailing data and the scanline
\* vector are exactly what they were before the call.
C26_FailedCallChangesNothing == [][FailedCallStep]_vars

\* parse failed past the header chunk: the chunk table holds the chunks read
\* before the failure, and no IEND chunk
C26_PartialTableAfterFailedParse ==
    /\ op = "parse"
    /\ err \in {"OutOfBounds", "BadCRC"}
    /\ map_find(chunk_map, IHDR)
    /\ ~map_find(chunk_map, IEND)
    /\ trailing_data = None

(***************************************************************************)
(* ScanlineBase::reconstruct on its own: rows of every filter tag, with    *)
(* and without a previous row.                                             *)
(***************************************************************************)
\* the filter tags the rows carry: the five of the format and two others
ReconTags == {0, 1, 2, 3, 4, 5, 255}

ReconKinds == {"GRAYSCALE_PIXEL_1BIT", "GRAYSCALE_PIXEL_8BIT", "TRUE_COLOR_PIXEL_8BIT"}

\* a row of the given kind, filter tag and number of spans
tagged_line(kind, tag, spans, pat) ==
    ScanlineOf(kind, tag, pattern_line(kind, spans, pat).pixel_data)

\* a Paeth row over a previous row 10, 12: the second span has left = 6,
\* up = 12 and up_left = 10, at the same distance 2 from left and up_left
PAETH_TIE ==
    [s |-> ScanlineOf("GRAYSCALE_PIXEL_8BIT", 4, <<(<<252>>), (<<1>>)>>),
     p |-> Some(ScanlineOf("GRAYSCALE_PIXEL_8BIT", 0, <<(<<10>>), (<<12>>)>>))]

\* the calls drawn: a row s and an optional previous row p, of the same
\* span count or of one span more
ReconInputs ==
    {[s |-> tagged_line(k, t, n, a),
      p |-> IF b = <<>> THEN None ELSE Some(pattern_line(k, n + more, b))] :
        k \in ReconKinds, t \in ReconTags, n \in 0..MaxSpans,
        a \in {<<200, 97>>, <<128, 13>>}, b \in {<<>>, <<7, 50>>, <<250, 3>>},
        more \in {0, 1}}
    \cup {PAETH_TIE}

InitRecon ==
    /\ chunk_map = EmptyMap
    /\ trailing_data = None
    /\ image_data = None
    /\ entries = <<>>
    /\ op = "new"
    /\ arg \in ReconInputs
    /\ err = "ok"
    /\ out = <<>>
    /\ added = <<>>
    /\ calls = 0

\* s.reconstruct(p)
ReconstructLine ==
    /\ op = "new"
    /\ LET r == Scanline_reconstruct(arg.s, arg.p)
       IN  out' = r.line /\ err' = r.err
    /\ op' = "reconstruct_line"
    /\ calls' = calls + 1
    /\ UNCHANGED <<chunk_map, trailing_data, image_data, arg, added>>
    /\ UNCHANGED entries

NextRecon == ReconstructLine

SpecRecon == InitRecon /\ [][NextRecon]_vars

\* the candidate among left, up, up_left nearest to left + up - up_left,
\* the first of them in that order when several are as near
nearest_of(left, up, up_left) ==
    LET p == left + up - up_left
        least == CHOOSE d \in {Abs(p - left), Abs(p - up), Abs(p - up_left)} :
                     \A e \in {Abs(p - left), Abs(p - up), Abs(p - up_left)} : d <= e
    IN  IF Abs(p - left) = least THEN left
        ELSE IF Abs(p - up) = least THEN up
        ELSE up_left

\* byte j of span i of the row rebuilt from s over the previous row p
RECURSIVE rebuilt_byte(_, _, _, _)
rebuilt_byte(s, p, i, j) ==
    LET curr == s.pixel_data[i][j]
        left == IF i = 1 THEN 0 ELSE rebuilt_byte(s, p, i - 1, j)
        up == IF has_value(p) THEN value(p).pixel_data[i][j] ELSE 0
        up_left == IF has_value(p) /\ i > 1 THEN value(p).pixel_data[i - 1][j] ELSE 0
    IN  CASE s.filter_type = 0 -> curr
          [] s.filter_type = 1 -> (curr + left) % 256
          [] s.filter_type = 2 -> (curr + up) % 256
          [] s.filter_type = 3 -> (curr + ((left + up) \div 2)) % 256
          [] s.filter_type = 4 -> (curr + nearest_of(left, up, up_left)) % 256

\* the row returned is the row of rebuilt bytes, with filter tag 0
rebuilt_as_stated ==
    /\ err = "ok"
    /\ out.filter_type = 0
    /\ out.kind = arg.s.kind
    /\ Len(out.pixel_data) = Len(arg.s.pixel_data)
    /\ \A i \in 1..Len(arg.s.pixel_data) :
           /\ Len(out.pixel_data[i]) = Len(arg.s.pixel_data[i])
           /\ \A j \in 1..Len(arg.s.pixel_data[i]) :
                  out.pixel_data[i][j] = rebuilt_byte(arg.s, arg.p, i, j)

\* the previous row, when given, has as many spans as the row
same_span_count == has_value(arg.p) => Len(value(arg.p).pixel_data) = Len(arg.s.pixel_data)

\* C27: reconstruct computes curr, curr + left, curr + up,
\* curr + floor((left + up) / 2) or curr + Paeth(left, up, up_left), modulo
\* 256, for the tags 0..4, left being the rebuilt byte of the span before,
\* bytes outside the image 0 and Paeth's ties going to left, up, up_left in
\* that order; the result has tag 0.  This holds for tag 0 always, and for
\* the tags 1..4 on a row of at least one span whose previous row, when
\* given, has the same span count; on such a row a tag outside 0..4 fails
\* with InvalidFilterType.  Otherwise a tag other than 0 fails with
\* ScanlineMismatch when the span counts differ, else with NoPixels.
C27_ReconstructFormula ==
    op = "reconstruct_line" =>
        IF arg.s.filter_type = 0 THEN err = "ok" /\ out = arg.s
        ELSE IF ~same_span_count THEN err = "ScanlineMismatch"
        ELSE IF Len(arg.s.pixel_data) = 0 THEN err = "NoPixels"
        ELSE IF arg.s.filter_type \in 1..4 THEN rebuilt_as_stated
        ELSE err = "InvalidFilterType"

\* the statement without its conditions on the row: every tag in 0..4 gives
\* the rebuilt row, every other tag InvalidFilterType
C27_ReconstructFormulaOnEveryRow ==
    op = "reconstruct_line" =>
        IF arg.s.filter_type \in 0..4 THEN rebuilt_as_stated
        ELSE err = "InvalidFilterType"

\* a Paeth row was rebuilt over a previous row, left and up_left being
\* equally near in its second span, and left was taken
C27_PaethTieTakesLeft ==
    /\ op = "reconstruct_line"
    /\ arg = PAETH_TIE
    /\ err = "ok"
    /\ out.pixel_data = <<(<<6>>), (<<7>>)>>

(***************************************************************************)
(* Stego frames read from images that were not made by                     *)
(* create_stego_payload: the low nibbles of the colour channels hold the   *)
(* frame bytes as given.                                                   *)
(***************************************************************************)
\* the t-th nibble (from 0) of a byte string, low nibble first, 0 past its end
nibble_of(frame, t) ==
    IF t >= 2 * Len(frame) THEN 0
    ELSE IF (t % 2) = 0 THEN frame[(t \div 2) + 1] % 16
    ELSE frame[(t \div 2) + 1] \div 16

\* 5x3 8-bit truecolour whose channels carry the frame, rows not filtered
frame_png(frame) ==
    png_of(MakeHeader(5, 3, 8, 2),
           Concat([r \in 1..3 |->
               <<0>> \o [c \in 1..15 |-> 160 + nibble_of(frame, (15 * (r - 1)) + c - 1)]]))

\* header, a length of 2^29 (its bit count 2^32 is 0 in 32 bits), trailer
FRAME_WRAPPED == frame_png(StegoHeader \o <<0, 0, 0, 32>> \o StegoFooter)
\* header, a length of 0, trailer
FRAME_EMPTY == frame_png(StegoHeader \o <<0, 0, 0, 0>> \o StegoFooter)
\* header, a length of 100, trailer: longer than the image has room for
FRAME_TOO_LONG == frame_png(StegoHeader \o <<100, 0, 0, 0>> \o StegoFooter)
\* header, a length of 2, two bytes and no trailer
FRAME_NO_TRAILER == frame_png(StegoHeader \o <<2, 0, 0, 0>> \o <<1, 2, 3, 4, 5>>)
\* header, a length of 2, two bytes, trailer
FRAME_TWO_BYTES == frame_png(StegoHeader \o <<2, 0, 0, 0, 17, 34>> \o StegoFooter)

FrameInputs ==
    {[data |-> d, validate |-> TRUE] :
        d \in {FRAME_WRAPPED, FRAME_EMPTY, FRAME_TOO_LONG, FRAME_NO_TRAILER,
               FRAME_TWO_BYTES, STEGO_RGB, RGB_5x3}}

NextFrame ==
    \/ \E in \in FrameInputs : Parse(in)
    \/ Load
    \/ HasStegoPayload
    \/ ExtractStegoPayload

SpecFrame == Init /\ [][NextFrame]_vars

\* the 32-bit length at bit offset 24, least significant byte first
frame_length(cm, img) == read_stego_data(cm, img, size_t(3 * 8), size_t(4)).data

\* 56 + 8 * length, over the integers
frame_trailer_offset(cm, img) ==
    Pad(BigAdd(size_t(7 * 8), BigMul(frame_length(cm, img), <<8>>)), 8)

\* width * height * 12, over the integers
frame_capacity(cm) ==
    BigMul(BigMul(le32(Header_width(Image_header(cm))),
                  le32(Header_height(Image_header(cm)))), <<12>>)

\* C28: whenever has_stego_payload() returns true, 56 + 8 * length + 24 is
\* at most width * height * 12 over the integers, the trailer DCF stands at
\* bit offset 56 + 8 * length, and the read of length bytes at bit offset
\* 56 that extract_stego_payload performs is not OutOfBounds.
C28_AcceptedFrameWithinCapacity ==
    (op = "has_stego_payload" /\ err = "ok" /\ out = TRUE) =>
        /\ ~BigLess(frame_capacity(chunk_map),
                    BigAdd(frame_trailer_offset(chunk_map, image_data), size_t(3 * 8)))
        /\ read_stego_data(chunk_map, image_data,
                           frame_trailer_offset(chunk_map, image_data),
                           size_t(3)).data = StegoFooter
        /\ read_stego_data(chunk_map, image_data, size_t(7 * 8),
                           Pad(frame_length(chunk_map, image_data), 8)).err # "OutOfBounds"

\* has_stego_payload returned true on a frame whose length is 2^29, and
\* extract_stego_payload then raised OutOfBounds
C28_WrappedLengthAccepted ==
    /\ op = "extract_stego_payload"
    /\ err = "OutOfBounds"
    /\ has_stego_payload(chunk_map, image_data) = [err |-> "ok", value |-> TRUE]
    /\ frame_length(chunk_map, image_data) = <<0, 0, 0, 32>>

(***************************************************************************)
(* The loops of Image::parse and Image::compress, one turn at a time.      *)
(* While a loop runs, op names it and out holds its local variables.       *)
(***************************************************************************)
\* the chunk sizes passed to compress: absent, 0, and sizes from 1 byte to
\* more than a whole stream
LoopChunkSizes == {None, Some(0), Some(1), Some(7), Some(DefaultChunkSize)}

\* the signature and an IEND chunk whose checksum is wrong
BAD_END == Signature \o <<0, 0, 0, 0>> \o IEND \o <<174, 66, 96, 131>>

\* the calls of parse: files of several chunks, without the CRC test, and
\* files of one IEND chunk with it
LoopInputs ==
    {[data |-> d, validate |-> FALSE] :
        d \in {RGB_2x2, GRAY1_3x2, WITH_EXTRAS, TRUNCATED, TOO_SHORT}}
    \cup {[data |-> d, validate |-> TRUE] : d \in {NO_HEADER, BAD_END}}

\* Image::parse up to its loop: the two tests, then the table and the
\* trailing data are cleared and offset = 8
ParseEnter(in) ==
    /\ calls < MaxCalls
    /\ op \notin {"parse_loop", "compress_loop"}
    /\ IF Len(in.data) < 8
       THEN /\ op' = "parse" /\ err' = "InsufficientSize" /\ out' = <<>>
            /\ UNCHANGED <<chunk_map, trailing_data>>
       ELSE IF Slice(in.data, 1, 8) # Signature
       THEN /\ op' = "parse" /\ err' = "BadPNGSignature" /\ out' = <<>>
            /\ UNCHANGED <<chunk_map, trailing_data>>
       ELSE /\ op' = "parse_loop" /\ err' = "ok" /\ out' = [offset |-> 8]
            /\ chunk_map' = EmptyMap
            /\ trailing_data' = None
    /\ arg' = in
    /\ calls' = calls + 1
    /\ UNCHANGED <<image_data, added>>
    /\ UNCHANGED entries

\* one turn of the do-while loop of Image::parse on the table cm, at offset;
\* the last turn goes on to the trailing data
parse_turn(cm, td, buf, validate, offset) ==
    LET left(e) == [op |-> "parse", err |-> e, out |-> <<>>,
                    chunk_map |-> cm, trailing_data |-> td]
    IN  Then(ChunkPtr_parse(buf, offset), LAMBDA current_chunk :
            IF current_chunk.err # "ok" THEN left(current_chunk.err)
            ELSE IF validate /\ ~ChunkPtr_validate(current_chunk) THEN left("BadCRC")
            ELSE LET next == offset + ChunkPtr_chunk_size(current_chunk)
                 IN  Then(map_push_back(cm, current_chunk.tag,
                                        ChunkPtr_to_chunk_vec(current_chunk)),
                          LAMBDA cm2 :
                              IF current_chunk.tag # IEND
                              THEN [op |-> "parse_loop", err |-> "ok",
                                    out |-> [offset |-> next],
                                    chunk_map |-> cm2, trailing_data |-> td]
                              ELSE [op |-> "parse", err |-> "ok", out |-> <<>>,
                                    chunk_map |-> cm2,
                                    trailing_data |->
                                        IF next < Len(buf)
                                        THEN Some(Slice(buf, next + 1, Len(buf)))
                                        ELSE None]))

\* the next turn of the loop of the running Image::parse
ParseTurn ==
    /\ op = "parse_loop"
    /\ \E r \in {parse_turn(chunk_map, trailing_data, arg.data, arg.validate, out.offset)} :
           /\ op' = r.op
           /\ err' = r.err
           /\ out' = r.out
           /\ chunk_map' = r.chunk_map
           /\ trailing_data' = r.trailing_data
    /\ UNCHANGED <<image_data, arg, added, calls>>
    /\ UNCHANGED entries

\* Image::compress up to its loop: without a chunk size the call is over
CompressEnter(chunk_size) ==
    /\ calls < MaxCalls
    /\ op \notin {"parse_loop", "compress_loop"}
    /\ IF ~has_value(image_data)
       THEN /\ op' = "compress" /\ err' = "NoImageData" /\ out' = <<>>
            /\ UNCHANGED chunk_map
       ELSE LET compressed == compress(raw_rows(image_data))
            IN  IF ~has_value(chunk_size)
                THEN /\ op' = "compress" /\ err' = "ok" /\ out' = <<>>
                     /\ chunk_map' = map_assign(chunk_map, IDAT,
                                                <<ChunkVec(IDAT, compressed)>>)
                ELSE /\ op' = "compress_loop" /\ err' = "ok"
                     /\ out' = [i |-> 0, idat_chunks |-> <<>>, compressed |-> compressed]
                     /\ UNCHANGED chunk_map
    /\ arg' = chunk_size
    /\ calls' = calls + 1
    /\ UNCHANGED <<trailing_data, image_data, added>>
    /\ UNCHANGED entries

\* one turn of the for loop of Image::compress, or its exit and the
\* assignment to the table
CompressTurn ==
    /\ op = "compress_loop"
    /\ Len(out.idat_chunks) < MaxTurns
    /\ IF out.i < Len(out.compressed)
       THEN LET left == Len(out.compressed) - out.i
                n == IF left > value(arg) THEN value(arg) ELSE left
            IN  /\ out' = [out EXCEPT
                              !.idat_chunks =
                                  Append(@, ChunkVec(IDAT, Slice(out.compressed,
                                                               out.i + 1, out.i + n))),
                              !.i = @ + value(arg)]
                /\ UNCHANGED <<chunk_map, op>>
       ELSE /\ chunk_map' = map_assign(chunk_map, IDAT, out.idat_chunks)
            /\ op' = "compress"
            /\ out' = <<>>
    /\ UNCHANGED <<trailing_data, image_data, arg, err, added, calls>>
    /\ UNCHANGED entries

\* Image::load(), between two calls
LoadBetween == op \notin {"parse_loop", "compress_loop"} /\ Load

NextLoop ==
    \/ \E in \in LoopInputs : ParseEnter(in)
    \/ ParseTurn
    \/ LoadBetween
    \/ \E chunk_size \in LoopChunkSizes : CompressEnter(chunk_size)
    \/ CompressTurn

\* a call that was entered goes on running
SpecLoop == Init /\ [][NextLoop]_vars /\ WF_vars(ParseTurn) /\ WF_vars(CompressTurn)

\* a turn that stays in its loop has moved the loop on: i has grown in
\* compress, the offset has grown by at least 12 in parse
LoopAdvances ==
    /\ (op = "compress_loop" /\ op' = "compress_loop") => out'.i > out.i
    /\ (op = "parse_loop" /\ op' = "parse_loop") => out'.offset >= out.offset + 12

\* C29: Image::compress terminates for every loaded image and every chunk
\* size, absent or any value including 0, and Image::parse terminates on
\* every input, each turn of its loop advancing the offset by at least 12:
\* every turn moves its loop on, and a call that entered its loop leaves
\* it, returning or raising an error.
C29_LoopsTerminate ==
    /\ [][LoopAdvances]_vars
    /\ (op \in {"parse_loop", "compress_loop"}) ~> (op \in {"parse", "compress"})

\* compress(0) has made MaxTurns turns and i is still 0
C29_CompressZeroStandsStill ==
    /\ op = "compress_loop"
    /\ arg = Some(0)
    /\ out.i = 0
    /\ Len(out.idat_chunks) = MaxTurns
    /\ Len(out.compressed) > 0

(***************************************************************************)
(* ChunkPtr::parse(ptr, size, offset) for every std::size_t offset: the    *)
(* offsets are 8-byte integers and the sums wrap at 2^64.  A view is the   *)
(* offset of its first byte in the buffer.                                 *)
(***************************************************************************)
\* the outcomes of ChunkPtr::parse at an offset of any size.  The length is
\* read through length_ptr after the tests of the length and tag fields;
\* when offset + 4 wrapped, that pointer is outside the buffer and the read
\* faults or finds any bytes.
ChunkPtr_parse_wide(buf, offset) ==
    LET size == size_t(Len(buf))
        failed(e) == [err |-> e, length |-> <<>>, length_at |-> <<>>, tag_at |-> <<>>,
                      data_at |-> <<>>, crc_at |-> <<>>]
        tag_at == Trunc(BigAdd(offset, size_t(4)), 8)
        data_at == Trunc(BigAdd(tag_at, size_t(4)), 8)
        inside == BigLess(offset, tag_at)
        lengths == IF inside
                   THEN {[i \in 1..4 |-> buf[BigToInt(offset) + 5 - i]]}
                   ELSE [1..4 -> UndefinedBytes]
        frame(length) ==
            LET crc_at == Trunc(BigAdd(data_at, length), 8)
            IN  IF ~BigLess(crc_at, size) THEN failed("OutOfBounds")
                ELSE IF BigLess(size, BigAdd(crc_at, size_t(4))) THEN failed("OutOfBounds")
                ELSE [err |-> "ok", length |-> length, length_at |-> offset,
                      tag_at |-> tag_at, data_at |-> data_at, crc_at |-> crc_at]
    IN  IF Len(buf) = 0 THEN {failed("NoData")}
        ELSE IF ~BigLess(tag_at, size) THEN {failed("OutOfBounds")}
        ELSE IF ~BigLess(data_at, size) THEN {failed("OutOfBounds")}
        ELSE {frame(length) : length \in lengths}
             \cup (IF inside THEN {} ELSE {failed("SIGSEGV")})

\* a tEXt chunk of three bytes, IEND and two bytes after it
TWO_CHUNKS ==
    file_of(<<ChunkVec(tEXt, <<65, 0, 104>>), ChunkVec(IEND, <<>>)>>, <<80, 75>>)

\* the signature and the head of a chunk whose length field is 2^32 - 16
LONG_LENGTH == Signature \o <<255, 255, 255, 240>> \o IEND \o <<1, 2, 3, 4, 5, 6>>

\* the buffers: every prefix of the two files
WideBuffers ==
    {Slice(TWO_CHUNKS, 1, n) : n \in 0..Len(TWO_CHUNKS)}
    \cup {Slice(LONG_LENGTH, 1, n) : n \in 9..Len(LONG_LENGTH)}

\* the offsets: the chunk boundaries of TWO_CHUNKS, offsets inside a chunk
\* and past the end, and the last offsets of std::size_t
WideOffsets ==
    {size_t(n) : n \in {0, 8, 9, 23, 35, 40}}
    \cup {<<252, 255, 255, 255, 255, 255, 255, 255>>,
          <<248, 255, 255, 255, 255, 255, 255, 255>>,
          <<255, 255, 255, 255, 255, 255, 255, 255>>}

InitWide ==
    /\ chunk_map = EmptyMap
    /\ trailing_data = None
    /\ image_data = None
    /\ entries = <<>>
    /\ op = "new"
    /\ arg \in [buf : WideBuffers, offset : WideOffsets]
    /\ err = "ok"
    /\ out = <<>>
    /\ added = <<>>
    /\ calls = 0

\* ChunkPtr::parse(buf.data(), buf.size(), offset)
ParseChunkAt ==
    /\ op = "new"
    /\ \E r \in ChunkPtr_parse_wide(arg.buf, arg.offset) : out' = r /\ err' = r.err
    /\ op' = "chunk_parse"
    /\ calls' = calls + 1
    /\ UNCHANGED <<chunk_map, trailing_data, image_data, arg, added>>
    /\ UNCHANGED entries

NextWide == ParseChunkAt

SpecWide == InitWide /\ [][NextWide]_vars

\* a + n <= b over the integers
big_within(a, n, b) == ~BigLess(b, BigAdd(a, size_t(n)))

\* offset + 12 + length <= size over the integers, length being the
\* big-endian 32-bit integer at offset
frame_fits(buf, offset) ==
    /\ big_within(offset, 4, size_t(Len(buf)))
    /\ ~BigLess(size_t(Len(buf)),
                BigAdd(BigAdd(offset, size_t(12)),
                       [i \in 1..4 |-> buf[BigToInt(offset) + 5 - i]]))

\* the n bytes of a view lie inside [offset, size)
view_inside(at, n, offset, size) == ~BigLess(at, offset) /\ big_within(at, n, size)

\* C30: ChunkPtr::parse(buffer, size, offset) succeeds iff
\* offset + 12 + length <= size, length being the big-endian 32-bit integer
\* at offset; otherwise it fails with OutOfBounds; on success the length,
\* tag, data and CRC views all lie inside [offset, size).
C30_ParseIffFrameFits ==
    op = "chunk_parse" =>
        /\ (err = "ok") <=> frame_fits(arg.buf, arg.offset)
        /\ ~frame_fits(arg.buf, arg.offset) => err = "OutOfBounds"
        /\ err = "ok" =>
               /\ view_inside(out.length_at, 4, arg.offset, size_t(Len(arg.buf)))
               /\ view_inside(out.tag_at, 4, arg.offset, size_t(Len(arg.buf)))
               /\ view_inside(out.data_at, 0, arg.offset, size_t(Len(arg.buf)))
               /\ big_within(out.data_at, 0, out.crc_at)
               /\ view_inside(out.crc_at, 4, arg.offset, size_t(Len(arg.buf)))

\* parse succeeded at the offset 2^64 - 4 of a buffer of 37 bytes: the
\* length view starts 4 bytes before the buffer
C30_WrappedOffsetAccepted ==
    /\ op = "chunk_parse"
    /\ err = "ok"
    /\ arg.offset = <<252, 255, 255, 255, 255, 255, 255, 255>>
    /\ Len(arg.buf) = 37
    /\ out.tag_at = size_t(0)

====
